---- MODULE Spec2Model ----
(***************************************************************************)
(* The Telegram media-manager bot of src/unnamed/part_002 (first server,   *)
(* lines 1-874: the normalized Movie / Series / Episode schema).           *)
(*                                                                         *)
(* State: the two in-process session maps (userStates, tempData), the      *)
(* three collections of the catalog store, and what the last update sent.   *)
(* A chat keeps the inline buttons of earlier messages, of earlier runs of  *)
(* the bot included, so any payload the bot builds can arrive at any time.  *)
(* One action per branch of bot.on('message'), of handleConversationFlow   *)
(* and of bot.on('callback_query'); an action is the whole handling of one *)
(* update.                                                                 *)
(*                                                                         *)
(* Spec is the whole bot.  SpecMovies, SpecEpisodes, SpecRace and           *)
(* SpecCatalog are the same actions restricted to the updates of one flow,  *)
(* small enough to be explored in full; they start from a store that an     *)
(* earlier run has filled (the sessions are lost on restart, the store is   *)
(* not).  SpecEdit, SpecSeason and SpecHttp do the same for the edit       *)
(* flows, the season buttons and the REST endpoints; SpecOverlap splits     *)
(* the movie commit at its await, so that handlers of one chat overlap;     *)
(* SpecIndex is the add-movie flow of the older server, src/index.js.       *)
(* SpecFetch, SpecStale, SpecNumbers and SpecDispatch are further           *)
(* restrictions of the same actions; SpecBoot is the start-up of the        *)
(* process; SpecEmb is the series flow of src/unnamed/part_000, which keeps *)
(* seasons and episodes inside the Series record, SpecIndexSeries that of   *)
(* src/index.js, and SpecPoll the polling-error handler with its timers.    *)
(* SpecOrphan, SpecGone, SpecEmbTwo, SpecIsolation, SpecRestart and         *)
(* SpecMedia interleave the updates of one or two chats around a delete, a  *)
(* restart or a page request.                                               *)
(*                                                                         *)
(* Text is a sequence of one-character strings, so that trim() and         *)
(* parseInt() are computed.  A callback payload is the sequence of its     *)
(* '_'-separated tokens (what data.split('_') returns).                    *)
(***************************************************************************)
EXTENDS Integers, Sequences, FiniteSets, TLC

VARIABLES
  userStates,   \* Map chatId -> state name            (part_002:154)
  tempData,     \* Map chatId -> draft object          (part_002:155)
  movies,       \* Movie collection:   _id -> document
  series,       \* Series collection:  _id -> document
  episodes,     \* Episode collection: _id -> document
  nextId,       \* number of ObjectIds handed out so far, plus one
  keyboard,     \* callback payloads of the inline keyboard sent by the last update
  transcript,   \* chatId -> the menu label last sent and the texts sent right after it
  last,         \* the update handled last: its input and what the bot sent
  response,     \* the HTTP response sent last by the REST endpoints
  boot,         \* the process from its start: environment, position, what it has set up
  poll,         \* the long-poll loop: restart timers armed, restarts made, errors seen
  pending       \* handlers suspended at 'await movie.save()', oldest first, kept
                \* (marked done) until a handler starts with none suspended

vars == <<userStates, tempData, movies, series, episodes, nextId, keyboard, transcript, last,
          pending, response, boot, poll>>

-----------------------------------------------------------------------------
(* Bounds *)

MaxIds == 2          \* documents created after start-up
MaxNumber == 2       \* largest season number printed on a button
MaxTranscript == 4
MaxPending == 2   \* messages of one flow that transcript keeps

Chats == {1, 2}
Users == {101, 102}

-----------------------------------------------------------------------------
(* Maps and objects *)

Empty == [k \in {} |-> 0]

Has(m, k) == k \in DOMAIN m

MapSet(m, k, v) == [x \in (DOMAIN m) \cup {k} |-> IF x = k THEN v ELSE m[x]]

MapDelete(m, k) == [x \in (DOMAIN m) \ {k} |-> m[x]]

\* {...a, ...b}: the keys of b override those of a
Spread(a, b) == [x \in (DOMAIN a) \cup (DOMAIN b) |-> IF x \in DOMAIN b THEN b[x] ELSE a[x]]

-----------------------------------------------------------------------------
(* String.prototype.trim and parseInt *)

NaN == -999999

IsSpace(ch) == ch = " "

RECURSIVE TrimStart(_)
TrimStart(s) == IF s # <<>> /\ IsSpace(Head(s)) THEN TrimStart(Tail(s)) ELSE s

RECURSIVE TrimEnd(_)
TrimEnd(s) ==
  IF s # <<>> /\ IsSpace(s[Len(s)]) THEN TrimEnd(SubSeq(s, 1, Len(s) - 1)) ELSE s

Trim(s) == TrimEnd(TrimStart(s))

DigitChars == <<"0", "1", "2", "3", "4", "5", "6", "7", "8", "9">>

IsDigit(ch) == \E i \in 1..10 : DigitChars[i] = ch

DigitValue(ch) == (CHOOSE i \in 1..10 : DigitChars[i] = ch) - 1

\* the value of the longest prefix of digits of s from position i on
RECURSIVE DigitsValue(_, _, _)
DigitsValue(s, i, acc) ==
  IF i > Len(s) \/ ~IsDigit(s[i]) THEN acc
  ELSE DigitsValue(s, i + 1, acc * 10 + DigitValue(s[i]))

\* parseInt that takes '-' for '+'
ParseInt_Unsigned(s) ==
  LET t == TrimStart(s)
      r == IF t # <<>> /\ Head(t) \in {"-", "+"} THEN Tail(t) ELSE t
  IN IF r = <<>> \/ ~IsDigit(Head(r)) THEN NaN ELSE DigitsValue(r, 1, 0)

\* parseInt(text): leading white space skipped, an optional sign, then the
\* longest prefix of decimal digits; NaN when there is no digit.
ParseInt(s) ==
  LET t == TrimStart(s)
      signed == t # <<>> /\ Head(t) \in {"-", "+"}
      neg == t # <<>> /\ Head(t) = "-"
      r == IF signed THEN Tail(t) ELSE t
  IN IF r = <<>> \/ ~IsDigit(Head(r)) THEN NaN
     ELSE IF neg THEN 0 - DigitsValue(r, 1, 0) ELSE DigitsValue(r, 1, 0)

IsNaN(n) == n = NaN

\* `${n}` of a number, and parseInt of such a token (parts[3] of a payload)
NumberTokens == [n \in 0..MaxNumber |-> ToString(n)]

ParseIntToken(t) ==
  IF \E n \in 0..MaxNumber : NumberTokens[n] = t
  THEN CHOOSE n \in 0..MaxNumber : NumberTokens[n] = t
  ELSE NaN

-----------------------------------------------------------------------------
(* Inbound text *)

\* msg.text of an update that carries no text (a photo, a sticker)
Undefined == <<"undefined">>

StartCommand == <<"/", "s", "t", "a", "r", "t">>

\* the six labels of getMainMenuKeyboard, without their leading emoji
AddMovieLabel == <<"A", "d", "d", " ", "M", "o", "v", "i", "e">>
AddSeriesLabel == <<"A", "d", "d", " ", "S", "e", "r", "i", "e", "s">>
EditDeleteMoviesLabel == <<"E", "d", "i", "t", "/", "D", "e", "l", "e", "t", "e", " ", "M", "o", "v", "i", "e", "s">>
EditDeleteSeriesLabel == <<"E", "d", "i", "t", "/", "D", "e", "l", "e", "t", "e", " ", "S", "e", "r", "i", "e", "s">>
FrontendUrlLabel == <<"F", "r", "o", "n", "t", "e", "n", "d", " ", "U", "R", "L">>
LibraryStatsLabel == <<"L", "i", "b", "r", "a", "r", "y", " ", "S", "t", "a", "t", "s">>

MenuTexts ==
  {StartCommand, AddMovieLabel, AddSeriesLabel, EditDeleteMoviesLabel,
   EditDeleteSeriesLabel, FrontendUrlLabel, LibraryStatsLabel}

-----------------------------------------------------------------------------
(* Callback payloads *)

RECURSIVE Join(_)
Join(toks) ==
  IF toks = <<>> THEN ""
  ELSE IF Len(toks) = 1 THEN toks[1]
  ELSE toks[1] \o "_" \o Join(Tail(toks))

\* data.startsWith(prefix + '_'), prefix given as its tokens
StartsWith(data, prefix) ==
  /\ Len(data) > Len(prefix)
  /\ SubSeq(data, 1, Len(prefix)) = prefix

\* data.startsWith(prefix), the prefix not ending in '_'
StartsWithWord(data, prefix) ==
  /\ Len(data) >= Len(prefix)
  /\ SubSeq(data, 1, Len(prefix)) = prefix

\* the '_'-free pieces identifiers are made of
IdAtoms == {"m0", "s0", "s1", "e0", "e1", "s"} \cup {ToString(n) : n \in 1..MaxIds}

\* id.split('_'): the pieces of an identifier, as they appear in a payload
split(id) ==
  CHOOSE toks \in UNION {[1..k -> IdAtoms] : k \in 1..2} : Join(toks) = id

extractId(data, prefix) == Join(SubSeq(data, Len(prefix) + 1, Len(data)))

P_add_new_season_to_series == <<"add", "new", "season", "to", "series">>
P_edit_series_episodes == <<"edit", "series", "episodes">>
P_delete_movie == <<"delete", "movie">>
P_delete_series == <<"delete", "series">>
P_edit_movie == <<"edit", "movie">>
P_edit_series == <<"edit", "series">>
P_edit_field_movie == <<"edit", "field", "movie">>
P_edit_field_series == <<"edit", "field", "series">>
P_select_season == <<"select", "season">>
P_start_add_episode == <<"start", "add", "episode">>
P_start_edit_episodes == <<"start", "edit", "episodes">>
P_edit_episode_field == <<"edit", "episode", "field">>
P_edit_field_episode == <<"edit", "field", "episode">>
P_add_another_episode == <<"add", "another", "episode">>
P_finish_series_flow == <<"finish", "series", "flow">>
P_cancel == <<"cancel">>

\* the chain with the test for edit_series_ moved to its head
Branch_SeriesFirst(data) ==
  IF StartsWith(data, P_edit_series) THEN "edit_series_"
  ELSE IF StartsWith(data, P_add_new_season_to_series) THEN "add_new_season_to_series_"
  ELSE IF StartsWith(data, P_edit_series_episodes) THEN "edit_series_episodes_"
  ELSE IF StartsWith(data, P_delete_movie) THEN "delete_movie_"
  ELSE IF StartsWith(data, P_delete_series) THEN "delete_series_"
  ELSE IF StartsWith(data, P_edit_movie) THEN "edit_movie_"
  ELSE IF StartsWith(data, P_edit_field_movie) THEN "edit_field_movie_"
  ELSE IF StartsWith(data, P_edit_field_series) THEN "edit_field_series_"
  ELSE IF StartsWith(data, P_select_season) THEN "select_season_"
  ELSE IF data = P_start_add_episode THEN "start_add_episode"
  ELSE IF StartsWithWord(data, P_start_edit_episodes) THEN "start_edit_episodes"
  ELSE IF StartsWith(data, P_edit_episode_field) THEN "edit_episode_field_"
  ELSE IF StartsWith(data, P_edit_field_episode) THEN "edit_field_episode_"
  ELSE IF data = P_add_another_episode THEN "add_another_episode"
  ELSE IF data = P_finish_series_flow THEN "finish_series_flow"
  ELSE IF data = P_cancel THEN "cancel"
  ELSE "none"

\* the if / else-if chain of bot.on('callback_query'): the first test that holds
Branch(data) ==
  IF StartsWith(data, P_add_new_season_to_series) THEN "add_new_season_to_series_"
  ELSE IF StartsWith(data, P_edit_series_episodes) THEN "edit_series_episodes_"
  ELSE IF StartsWith(data, P_delete_movie) THEN "delete_movie_"
  ELSE IF StartsWith(data, P_delete_series) THEN "delete_series_"
  ELSE IF StartsWith(data, P_edit_movie) THEN "edit_movie_"
  ELSE IF StartsWith(data, P_edit_series) THEN "edit_series_"
  ELSE IF StartsWith(data, P_edit_field_movie) THEN "edit_field_movie_"
  ELSE IF StartsWith(data, P_edit_field_series) THEN "edit_field_series_"
  ELSE IF StartsWith(data, P_select_season) THEN "select_season_"
  ELSE IF data = P_start_add_episode THEN "start_add_episode"
  ELSE IF StartsWithWord(data, P_start_edit_episodes) THEN "start_edit_episodes"
  ELSE IF StartsWith(data, P_edit_episode_field) THEN "edit_episode_field_"
  ELSE IF StartsWith(data, P_edit_field_episode) THEN "edit_field_episode_"
  ELSE IF data = P_add_another_episode THEN "add_another_episode"
  ELSE IF data = P_finish_series_flow THEN "finish_series_flow"
  ELSE IF data = P_cancel THEN "cancel"
  ELSE "none"

-----------------------------------------------------------------------------
(* The catalog store *)

NewId == ToString(nextId)

\* required: true on a String path rejects a missing value and ''
RequiredString(doc, k) == Has(doc, k) /\ doc[k] # <<>>

\* new Movie({ ...data, addedBy: userId }): the schema keeps its own paths
MovieDoc(data, userId) ==
  [k \in ((DOMAIN data) \cap {"name", "thumbnail", "streamingUrl"}) \cup {"addedBy", "type"} |->
     IF k = "addedBy" THEN userId
     ELSE IF k = "type" THEN (IF Has(data, "type") THEN data.type ELSE "movie")
     ELSE data[k]]

MovieValid(doc) ==
  /\ RequiredString(doc, "name")
  /\ RequiredString(doc, "thumbnail")
  /\ RequiredString(doc, "streamingUrl")

\* new Series({ ...data, addedBy: userId })
SeriesDoc(data, userId) ==
  [k \in ((DOMAIN data) \cap {"name", "thumbnail"}) \cup {"addedBy", "type"} |->
     IF k = "addedBy" THEN userId
     ELSE IF k = "type" THEN (IF Has(data, "type") THEN data.type ELSE "series")
     ELSE data[k]]

SeriesValid(doc) ==
  /\ RequiredString(doc, "name")
  /\ RequiredString(doc, "thumbnail")

\* new Episode({ seriesId: data.seriesId, ..., addedBy: userId }): a key whose
\* value is undefined is no path of the document
EpisodeDoc(data, userId) ==
  [k \in ((DOMAIN data) \cap {"seriesId", "seasonNumber", "episodeNumber", "title", "streamingUrl"})
          \cup {"addedBy"} |->
     IF k = "addedBy" THEN userId ELSE data[k]]

EpisodeValid(doc) ==
  /\ Has(doc, "seriesId")
  /\ Has(doc, "seasonNumber") /\ ~IsNaN(doc.seasonNumber)
  /\ Has(doc, "episodeNumber") /\ ~IsNaN(doc.episodeNumber)
  /\ RequiredString(doc, "title")
  /\ RequiredString(doc, "streamingUrl")

\* the collection without its unique index
UniqueIndexAllows_Off(coll, doc) == TRUE

\* episodeSchema.index({ seriesId: 1, seasonNumber: 1, episodeNumber: 1 }, { unique: true })
UniqueIndexAllows(coll, doc) ==
  \A e \in DOMAIN coll :
     ~(/\ coll[e].seriesId = doc.seriesId
       /\ coll[e].seasonNumber = doc.seasonNumber
       /\ coll[e].episodeNumber = doc.episodeNumber)

\* One condition of a query filter, { path: value }.  A value that is undefined
\* either matches no stored (required) path or drops the condition, depending
\* on the driver: undef is "null" or "any".
Cond(doc, path, obj, key, undef) ==
  IF Has(obj, key) THEN doc[path] = obj[key] ELSE undef = "any"

\* a season lookup that finds nothing
EpisodesOfSeason_None(data, n, undef) == {}

\* Episode.findOne({ seriesId: data.seriesId, seasonNumber }) finds one of these
EpisodesOfSeason(data, n, undef) ==
  {e \in DOMAIN episodes :
     /\ Cond(episodes[e], "seriesId", data, "seriesId", undef)
     /\ episodes[e].seasonNumber = n}

\* an episode lookup that finds nothing
EpisodesOfNumber_None(data, n, undef) == {}

\* Episode.findOne({ seriesId: data.seriesId, seasonNumber: data.seasonNumber, episodeNumber })
EpisodesOfNumber(data, n, undef) ==
  {e \in DOMAIN episodes :
     /\ Cond(episodes[e], "seriesId", data, "seriesId", undef)
     /\ Cond(episodes[e], "seasonNumber", data, "seasonNumber", undef)
     /\ episodes[e].episodeNumber = n}

\* Episode.find({ seriesId: data.seriesId, seasonNumber: data.seasonNumber })
EpisodesOfDraftSeason(data, undef) ==
  {e \in DOMAIN episodes :
     /\ Cond(episodes[e], "seriesId", data, "seriesId", undef)
     /\ Cond(episodes[e], "seasonNumber", data, "seasonNumber", undef)}

\* a filter on seriesId that matches nothing
EpisodesOfSeries_None(id) == {}

\* Episode.find({ seriesId }) / Episode.deleteMany({ seriesId })
EpisodesOfSeries(id) == {e \in DOMAIN episodes : episodes[e].seriesId = id}

\* an update that replaces the document by the update object
UpdateById_Overwrite(coll, id, path, value) ==
  IF Has(coll, id) THEN [coll EXCEPT ![id] = MapSet(Empty, path, value)] ELSE coll

\* Model.findByIdAndUpdate(id, { path: value }): the document with that _id,
\* when there is one, gets the path set; no validator runs
UpdateById(coll, id, path, value) ==
  IF Has(coll, id) THEN [coll EXCEPT ![id] = MapSet(coll[id], path, value)] ELSE coll

-----------------------------------------------------------------------------
(* Sessions and what is recorded of one handled update *)

\* userStates.get(chatId); "undefined" when the chat has no entry
UserState(c) == IF Has(userStates, c) THEN userStates[c] ELSE "undefined"

\* tempData.get(chatId) || {}
Data(c) == IF Has(tempData, c) THEN tempData[c] ELSE Empty

\* if (data && Object.keys(data).length > 0) tempData.set(chatId, data)
WriteBack(td, c, data) == IF DOMAIN data # {} THEN MapSet(td, c, data) ELSE td

\* !!value of a string and of a number
TruthyString(obj, k) == Has(obj, k) /\ obj[k] # ""
TruthyNumber(obj, k) == Has(obj, k) /\ obj[k] # 0 /\ ~IsNaN(obj[k])

\* what is kept of the update just handled; a button press, /start or a
\* message after MaxTranscript ones ends the chat's transcript
Record(c, u, branch, text, data, f, sent, answered, created) ==
  /\ UNCHANGED <<response, boot, poll>>
  /\ last' = [chat |-> c, user |-> u, branch |-> branch, text |-> text, data |-> data,
              f |-> f, sent |-> sent, answered |-> answered, created |-> created]
  /\ transcript' = [transcript EXCEPT ![c] =
        IF data # <<>> \/ text = StartCommand THEN <<>>
        ELSE IF text \in MenuTexts THEN <<text>>
        ELSE IF @ = <<>> \/ Len(@) >= MaxTranscript THEN <<>>
        ELSE Append(@, text)]

\* a handler that runs to its end without being suspended
Log(c, u, branch, text, data, f, sent, answered, created) ==
  /\ Record(c, u, branch, text, data, f, sent, answered, created)
  /\ UNCHANGED pending

\* A /start that forgets the session of every chat instead of the sender's.
ClearSession_AllChats(c) ==
  /\ userStates' = Empty
  /\ tempData' = Empty

ClearSession(c) ==
  /\ userStates' = MapDelete(userStates, c)
  /\ tempData' = MapDelete(tempData, c)

StoreUnchanged == UNCHANGED <<movies, series, episodes, nextId>>

\* reply_markup: { inline_keyboard: ... } of the message sent, if any
SendButtons(c, payloads) == keyboard' = payloads

NoButtons == keyboard' = {}

-----------------------------------------------------------------------------
(* bot.on('message') *)

\* catch (error) of bot.on('message')
MessageCatch(c, u, branch, text, f) ==
  /\ ClearSession(c)
  /\ StoreUnchanged
  /\ NoButtons
  /\ Log(c, u, branch, text, <<>>, f, <<"error_occurred">>, 0, "")

\* A /start that greets but keeps the chat's session state and draft.
OnStart_KeepsSession(c, u, text) ==
  /\ text = StartCommand
  /\ UNCHANGED <<userStates, tempData>>
  /\ StoreUnchanged
  /\ NoButtons
  /\ Log(c, u, "/start", text, <<>>, 0, <<"welcome">>, 0, "")

OnStart(c, u, text) ==
  /\ text = StartCommand
  /\ ClearSession(c)
  /\ StoreUnchanged
  /\ NoButtons
  /\ Log(c, u, "/start", text, <<>>, 0, <<"welcome">>, 0, "")

OnAddMovie(c, u, text) ==
  /\ text = AddMovieLabel
  /\ userStates' = MapSet(userStates, c, "adding_movie_name")
  /\ tempData' = MapSet(tempData, c, [type |-> "movie"])
  /\ StoreUnchanged
  /\ NoButtons
  /\ Log(c, u, "Add Movie", text, <<>>, 0, <<"enter_movie_name">>, 0, "")

OnAddSeries(c, u, text) ==
  /\ text = AddSeriesLabel
  /\ userStates' = MapSet(userStates, c, "adding_series_name")
  /\ tempData' = MapSet(tempData, c, [type |-> "series"])
  /\ StoreUnchanged
  /\ NoButtons
  /\ Log(c, u, "Add Series", text, <<>>, 0, <<"enter_series_name">>, 0, "")

\* Movie.find().sort({ addedAt: -1 }).limit(10): MaxIds stays below the limit
OnEditDeleteMovies(c, u, text, f) ==
  /\ text = EditDeleteMoviesLabel
  /\ f \in 0..1
  /\ IF f = 1 THEN MessageCatch(c, u, "Edit/Delete Movies", text, f)
     ELSE /\ UNCHANGED <<userStates, tempData>>
          /\ StoreUnchanged
          /\ IF DOMAIN movies = {}
             THEN /\ NoButtons
                  /\ Log(c, u, "Edit/Delete Movies", text, <<>>, f, <<"no_movies_found">>, 0, "")
             ELSE /\ SendButtons(c, {P_edit_movie \o <<m>> : m \in DOMAIN movies}
                                      \cup {P_delete_movie \o <<m>> : m \in DOMAIN movies})
                  /\ Log(c, u, "Edit/Delete Movies", text, <<>>, f, <<"select_movie">>, 0, "")

OnEditDeleteSeries(c, u, text, f) ==
  /\ text = EditDeleteSeriesLabel
  /\ f \in 0..1
  /\ IF f = 1 THEN MessageCatch(c, u, "Edit/Delete Series", text, f)
     ELSE /\ UNCHANGED <<userStates, tempData>>
          /\ StoreUnchanged
          /\ IF DOMAIN series = {}
             THEN /\ NoButtons
                  /\ Log(c, u, "Edit/Delete Series", text, <<>>, f, <<"no_series_found">>, 0, "")
             ELSE /\ SendButtons(c, {P_edit_series \o <<x>> : x \in DOMAIN series}
                                      \cup {P_delete_series \o <<x>> : x \in DOMAIN series})
                  /\ Log(c, u, "Edit/Delete Series", text, <<>>, f, <<"select_series">>, 0, "")

OnFrontendUrl(c, u, text) ==
  /\ text = FrontendUrlLabel
  /\ UNCHANGED <<userStates, tempData>> /\ NoButtons
  /\ StoreUnchanged
  /\ Log(c, u, "Frontend URL", text, <<>>, 0, <<"frontend_url">>, 0, "")

\* three countDocuments(); any of them failing ends in the catch
OnLibraryStats(c, u, text, f) ==
  /\ text = LibraryStatsLabel
  /\ f \in 0..1
  /\ IF f = 1 THEN MessageCatch(c, u, "Library Stats", text, f)
     ELSE /\ UNCHANGED <<userStates, tempData>> /\ NoButtons
          /\ StoreUnchanged
          /\ Log(c, u, "Library Stats", text, <<>>, f, <<"library_statistics">>, 0, "")

-----------------------------------------------------------------------------
(* handleConversationFlow(chatId, text, userId): one action per case *)

\* the case labels of the switch
FlowStates ==
  {"adding_movie_name", "adding_movie_thumbnail", "adding_movie_streaming_url",
   "adding_series_name", "adding_series_thumbnail", "adding_season_number",
   "adding_episode_number", "adding_episode_title", "adding_episode_url",
   "editing_movie_name", "editing_movie_thumbnail", "editing_movie_streaming_url",
   "editing_series_name", "editing_series_thumbnail",
   "editing_episode_title", "editing_episode_streaming_url"}

\* the cases whose text.trim() is evaluated outside an inner try
TrimOutsideTry ==
  {"adding_movie_name", "adding_movie_thumbnail", "adding_movie_streaming_url",
   "adding_series_name", "adding_series_thumbnail", "adding_season_number",
   "adding_episode_number", "adding_episode_title", "adding_episode_url"}

\* the else branch of bot.on('message') is taken, in state `state`, with a text
InFlow(c, text, state) ==
  /\ text \notin MenuTexts
  /\ text # Undefined
  /\ UserState(c) = state

\* catch (error) of handleConversationFlow
FlowCatch(c, u, branch, text, f) ==
  /\ ClearSession(c)
  /\ StoreUnchanged
  /\ NoButtons
  /\ Log(c, u, branch, text, <<>>, f, <<"error_occurred">>, 0, "")

\* the case storing the text as typed, without .trim()
CollectField_NoTrim(c, u, text, state, key, next, prompt) ==
  /\ InFlow(c, text, state)
  /\ userStates' = MapSet(userStates, c, next)
  /\ tempData' = WriteBack(tempData, c, MapSet(Data(c), key, text))
  /\ StoreUnchanged
  /\ NoButtons
  /\ Log(c, u, state, text, <<>>, 0, <<prompt>>, 0, "")

\* a case that stores the trimmed text in the draft and moves on
CollectField(c, u, text, state, key, next, prompt) ==
  /\ InFlow(c, text, state)
  /\ userStates' = MapSet(userStates, c, next)
  /\ tempData' = WriteBack(tempData, c, MapSet(Data(c), key, Trim(text)))
  /\ StoreUnchanged
  /\ NoButtons
  /\ Log(c, u, state, text, <<>>, 0, <<prompt>>, 0, "")

AddingMovieName(c, u, text) ==
  CollectField(c, u, text, "adding_movie_name", "name",
               "adding_movie_thumbnail", "enter_movie_thumbnail")

AddingMovieThumbnail(c, u, text) ==
  CollectField(c, u, text, "adding_movie_thumbnail", "thumbnail",
               "adding_movie_streaming_url", "enter_streaming_url")

AddingMovieStreamingUrl(c, u, text, f) ==
  LET data == MapSet(Data(c), "streamingUrl", Trim(text))
      doc == MovieDoc(data, u)
      saved == f = 0 /\ MovieValid(doc)
  IN /\ InFlow(c, text, "adding_movie_streaming_url")
     /\ f \in 0..1
     /\ saved => nextId <= MaxIds
     /\ movies' = IF saved THEN MapSet(movies, NewId, doc) ELSE movies
     /\ nextId' = IF saved THEN nextId + 1 ELSE nextId
     /\ UNCHANGED <<series, episodes>> /\ NoButtons
     /\ userStates' = MapDelete(userStates, c)
     /\ tempData' = WriteBack(MapDelete(tempData, c), c, data)
     /\ Log(c, u, "adding_movie_streaming_url", text, <<>>, f,
            IF saved THEN <<"movie_added">> ELSE <<"error_adding_movie">>,
            0, IF saved THEN NewId ELSE "")

AddingSeriesName(c, u, text) ==
  CollectField(c, u, text, "adding_series_name", "name",
               "adding_series_thumbnail", "enter_series_thumbnail")

AddingSeriesThumbnail(c, u, text, f) ==
  LET data == MapSet(Data(c), "thumbnail", Trim(text))
      doc == SeriesDoc(data, u)
      saved == f = 0 /\ SeriesValid(doc)
      fresh == [type |-> "series", seriesId |-> NewId, seriesName |-> doc.name]
  IN /\ InFlow(c, text, "adding_series_thumbnail")
     /\ f \in 0..1
     /\ saved => nextId <= MaxIds
     /\ series' = IF saved THEN MapSet(series, NewId, doc) ELSE series
     /\ nextId' = IF saved THEN nextId + 1 ELSE nextId
     /\ UNCHANGED <<movies, episodes>> /\ NoButtons
     /\ userStates' = IF saved THEN MapSet(userStates, c, "adding_season_number")
                      ELSE userStates
     /\ tempData' = WriteBack(IF saved THEN MapSet(tempData, c, fresh) ELSE tempData,
                              c, data)
     /\ Log(c, u, "adding_series_thumbnail", text, <<>>, f,
            IF saved THEN <<"series_created">> ELSE <<"error_adding_series">>,
            0, IF saved THEN NewId ELSE "")

AddingSeasonNumber(c, u, text, f, undef) ==
  LET data == Data(c)
      seasonNumber == ParseInt(Trim(text))
  IN /\ InFlow(c, text, "adding_season_number")
     /\ f \in 0..1
     /\ StoreUnchanged
     /\ NoButtons
     /\ IF IsNaN(seasonNumber) \/ seasonNumber <= 0
        THEN /\ f = 0
             /\ UNCHANGED <<userStates, tempData>>
             /\ Log(c, u, "adding_season_number", text, <<>>, f,
                    <<"warn_valid_season_number">>, 0, "")
        ELSE IF f = 1
        THEN /\ ClearSession(c)
             /\ Log(c, u, "adding_season_number", text, <<>>, f, <<"error_occurred">>, 0, "")
        ELSE IF EpisodesOfSeason(data, seasonNumber, undef) # {}
        THEN /\ UNCHANGED <<userStates, tempData>>
             /\ Log(c, u, "adding_season_number", text, <<>>, f,
                    <<"warn_season_exists">>, 0, "")
        ELSE /\ userStates' = MapSet(userStates, c, "adding_episode_number")
             /\ tempData' = WriteBack(tempData, c, MapSet(data, "seasonNumber", seasonNumber))
             /\ Log(c, u, "adding_season_number", text, <<>>, f,
                    <<"enter_episode_number">>, 0, "")

AddingEpisodeNumber(c, u, text, f, undef) ==
  LET data == Data(c)
      episodeNumber == ParseInt(Trim(text))
  IN /\ InFlow(c, text, "adding_episode_number")
     /\ f \in 0..1
     /\ StoreUnchanged
     /\ NoButtons
     /\ IF IsNaN(episodeNumber) \/ episodeNumber <= 0
        THEN /\ f = 0
             /\ UNCHANGED <<userStates, tempData>>
             /\ Log(c, u, "adding_episode_number", text, <<>>, f,
                    <<"warn_valid_episode_number">>, 0, "")
        ELSE IF f = 1
        THEN /\ ClearSession(c)
             /\ Log(c, u, "adding_episode_number", text, <<>>, f, <<"error_occurred">>, 0, "")
        ELSE IF EpisodesOfNumber(data, episodeNumber, undef) # {}
        THEN /\ UNCHANGED <<userStates, tempData>>
             /\ Log(c, u, "adding_episode_number", text, <<>>, f,
                    <<"warn_episode_exists">>, 0, "")
        ELSE /\ userStates' = MapSet(userStates, c, "adding_episode_title")
             /\ tempData' = WriteBack(tempData, c, MapSet(data, "episodeNumber", episodeNumber))
             /\ Log(c, u, "adding_episode_number", text, <<>>, f,
                    <<"enter_episode_title">>, 0, "")

AddingEpisodeTitle(c, u, text) ==
  CollectField(c, u, text, "adding_episode_title", "title",
               "adding_episode_url", "enter_episode_url")

\* the case with its draft gone after tempData.delete(chatId), no write-back
AddingEpisodeUrl_Cleared(c, u, text, f) ==
  LET data == MapSet(Data(c), "streamingUrl", Trim(text))
      doc == EpisodeDoc(data, u)
      saved == f # 1 /\ EpisodeValid(doc) /\ UniqueIndexAllows(episodes, doc)
      confirmed == saved /\ f = 0
  IN /\ InFlow(c, text, "adding_episode_url")
     /\ f \in 0..2
     /\ f = 2 => saved
     /\ saved => nextId <= MaxIds
     /\ episodes' = IF saved THEN MapSet(episodes, NewId, doc) ELSE episodes
     /\ nextId' = IF saved THEN nextId + 1 ELSE nextId
     /\ UNCHANGED <<movies, series>>
     /\ IF confirmed
        THEN SendButtons(c, {P_add_another_episode,
                             P_add_new_season_to_series \o <<data.seriesId>>,
                             P_finish_series_flow})
        ELSE NoButtons
     /\ userStates' = MapDelete(userStates, c)
     /\ tempData' = MapDelete(tempData, c)
     /\ Log(c, u, "adding_episode_url", text, <<>>, f,
            IF confirmed THEN <<"episode_added">> ELSE <<"error_saving_episode">>,
            0, IF saved THEN NewId ELSE "")

\* f = 1: newEpisode.save() fails; f = 2: the countDocuments() after it fails
AddingEpisodeUrl(c, u, text, f) ==
  LET data == MapSet(Data(c), "streamingUrl", Trim(text))
      doc == EpisodeDoc(data, u)
      saved == f # 1 /\ EpisodeValid(doc) /\ UniqueIndexAllows(episodes, doc)
      confirmed == saved /\ f = 0
  IN /\ InFlow(c, text, "adding_episode_url")
     /\ f \in 0..2
     /\ f = 2 => saved
     /\ saved => nextId <= MaxIds
     /\ episodes' = IF saved THEN MapSet(episodes, NewId, doc) ELSE episodes
     /\ nextId' = IF saved THEN nextId + 1 ELSE nextId
     /\ UNCHANGED <<movies, series>>
     /\ IF confirmed
        THEN SendButtons(c, {P_add_another_episode,
                             P_add_new_season_to_series \o <<data.seriesId>>,
                             P_finish_series_flow})
        ELSE NoButtons
     /\ userStates' = MapDelete(userStates, c)
     /\ tempData' = WriteBack(MapDelete(tempData, c), c, data)
     /\ Log(c, u, "adding_episode_url", text, <<>>, f,
            IF confirmed THEN <<"episode_added">> ELSE <<"error_saving_episode">>,
            0, IF saved THEN NewId ELSE "")

\* The documents Model.findByIdAndUpdate(id, ...) may update: the one with
\* that _id; with id undefined, none or any one (see Cond).
UpdateTargets(coll, data, idKey, undef) ==
  IF Has(data, idKey) THEN {data[idKey]} \cap DOMAIN coll
  ELSE IF undef = "any" THEN DOMAIN coll ELSE {}

\* inside the inner try of an editing_* case: undefined.trim() throws, or the
\* store rejects the update
EditFailed(text, f) == text = Undefined \/ f = 1

\* an editing_* case
EditingCase(c, u, text, f, state) ==
  /\ text \notin MenuTexts
  /\ UserState(c) = state
  /\ f \in 0..1
  /\ UNCHANGED nextId /\ NoButtons
  /\ userStates' = MapDelete(userStates, c)
  /\ tempData' = WriteBack(MapDelete(tempData, c), c, Data(c))
  /\ Log(c, u, state, text, <<>>, f,
         IF EditFailed(text, f) THEN <<"error_updating">> ELSE <<"updated">>, 0, "")

EditingMovie(c, u, text, f, undef, state, path) ==
  /\ EditingCase(c, u, text, f, state)
  /\ UNCHANGED <<series, episodes>>
  /\ IF ~EditFailed(text, f) /\ UpdateTargets(movies, Data(c), "movieId", undef) # {}
     THEN \E t \in UpdateTargets(movies, Data(c), "movieId", undef) :
             movies' = UpdateById(movies, t, path, Trim(text))
     ELSE UNCHANGED movies

EditingSeries(c, u, text, f, undef, state, path) ==
  /\ EditingCase(c, u, text, f, state)
  /\ UNCHANGED <<movies, episodes>>
  /\ IF ~EditFailed(text, f) /\ UpdateTargets(series, Data(c), "seriesId", undef) # {}
     THEN \E t \in UpdateTargets(series, Data(c), "seriesId", undef) :
             series' = UpdateById(series, t, path, Trim(text))
     ELSE UNCHANGED series

EditingEpisode(c, u, text, f, undef, state, path) ==
  /\ EditingCase(c, u, text, f, state)
  /\ UNCHANGED <<movies, series>>
  /\ IF ~EditFailed(text, f) /\ UpdateTargets(episodes, Data(c), "episodeId", undef) # {}
     THEN \E t \in UpdateTargets(episodes, Data(c), "episodeId", undef) :
             episodes' = UpdateById(episodes, t, path, Trim(text))
     ELSE UNCHANGED episodes

EditingMovieName(c, u, text, f, undef) ==
  EditingMovie(c, u, text, f, undef, "editing_movie_name", "name")

EditingMovieThumbnail(c, u, text, f, undef) ==
  EditingMovie(c, u, text, f, undef, "editing_movie_thumbnail", "thumbnail")

EditingMovieStreamingUrl(c, u, text, f, undef) ==
  EditingMovie(c, u, text, f, undef, "editing_movie_streaming_url", "streamingUrl")

EditingSeriesName(c, u, text, f, undef) ==
  EditingSeries(c, u, text, f, undef, "editing_series_name", "name")

EditingSeriesThumbnail(c, u, text, f, undef) ==
  EditingSeries(c, u, text, f, undef, "editing_series_thumbnail", "thumbnail")

EditingEpisodeTitle(c, u, text, f, undef) ==
  EditingEpisode(c, u, text, f, undef, "editing_episode_title", "title")

EditingEpisodeStreamingUrl(c, u, text, f, undef) ==
  EditingEpisode(c, u, text, f, undef, "editing_episode_streaming_url", "streamingUrl")

\* a switch without its default case: the text is dropped
FlowDefault_Dropped(c, u, text) ==
  /\ text \notin MenuTexts
  /\ UserState(c) \notin FlowStates
  /\ UNCHANGED <<userStates, tempData>>
  /\ StoreUnchanged
  /\ NoButtons
  /\ Log(c, u, "default", text, <<>>, 0, <<>>, 0, "")

\* default: any state that is no case label, the missing state among them
FlowDefault(c, u, text) ==
  /\ text \notin MenuTexts
  /\ UserState(c) \notin FlowStates
  /\ userStates' = MapDelete(userStates, c)
  /\ tempData' = WriteBack(MapDelete(tempData, c), c, Data(c))
  /\ StoreUnchanged
  /\ NoButtons
  /\ Log(c, u, "default", text, <<>>, 0, <<"did_not_understand">>, 0, "")

\* undefined.trim() throws a TypeError that the outer catch handles
FlowTypeError(c, u, text) ==
  /\ text = Undefined
  /\ UserState(c) \in TrimOutsideTry
  /\ FlowCatch(c, u, UserState(c), text, 0)

-----------------------------------------------------------------------------
(* bot.on('callback_query'): one action per branch.  A branch that returns  *)
(* early does not reach bot.answerCallbackQuery.                            *)

\* catch (error) of bot.on('callback_query')
CallbackCatch(c, u, branch, data, f) ==
  /\ ClearSession(c)
  /\ Log(c, u, branch, <<>>, data, f, <<>>, 1, "")

\* findById(id) result: the stored document with its _id
DocOf(coll, id) == Spread(coll[id], [_id |-> id])

CbAddNewSeasonToSeries(c, u, data) ==
  LET seriesId == extractId(data, P_add_new_season_to_series)
  IN /\ Branch(data) = "add_new_season_to_series_"
     /\ tempData' = MapSet(tempData, c, [type |-> "series", seriesId |-> seriesId])
     /\ userStates' = MapSet(userStates, c, "adding_season_number")
     /\ StoreUnchanged
     /\ NoButtons
     /\ Log(c, u, "add_new_season_to_series_", <<>>, data, 0, <<"enter_new_season_number">>, 1, "")

\* f = 1: Series.findById fails; f = 2: the distinct('seasonNumber') query fails
CbEditSeriesEpisodes(c, u, data, f) ==
  LET seriesId == extractId(data, P_edit_series_episodes)
      seasons == {episodes[e].seasonNumber : e \in EpisodesOfSeries(seriesId)}
  IN /\ Branch(data) = "edit_series_episodes_"
     /\ f \in 0..2
     /\ StoreUnchanged
     /\ IF f = 1
        THEN /\ NoButtons
             /\ CallbackCatch(c, u, "edit_series_episodes_", data, f)
        ELSE IF ~Has(series, seriesId)
        THEN /\ f = 0
             /\ UNCHANGED <<userStates, tempData>> /\ NoButtons
             /\ Log(c, u, "edit_series_episodes_", <<>>, data, f, <<"series_not_found">>, 0, "")
        ELSE IF f = 2
        THEN /\ NoButtons
             /\ CallbackCatch(c, u, "edit_series_episodes_", data, f)
        ELSE /\ tempData' = MapSet(tempData, c, [type |-> "series", seriesId |-> seriesId])
             /\ UNCHANGED userStates
             /\ SendButtons(c, {P_select_season \o split(seriesId) \o <<ToString(n)>> : n \in seasons}
                                 \cup {P_add_new_season_to_series \o <<seriesId>>})
             /\ Log(c, u, "edit_series_episodes_", <<>>, data, f, <<"select_season">>, 1, "")

CbDeleteMovie(c, u, data, f) ==
  LET movieId == extractId(data, P_delete_movie)
  IN /\ Branch(data) = "delete_movie_"
     /\ f \in 0..1
     /\ UNCHANGED <<series, episodes, nextId>> /\ NoButtons
     /\ IF f = 1
        THEN /\ UNCHANGED movies
             /\ CallbackCatch(c, u, "delete_movie_", data, f)
        ELSE /\ UNCHANGED <<userStates, tempData>>
             /\ movies' = MapDelete(movies, movieId)
             /\ Log(c, u, "delete_movie_", <<>>, data, f,
                    IF Has(movies, movieId) THEN <<"movie_deleted">> ELSE <<"movie_not_found">>,
                    1, "")

\* f = 1: Series.findByIdAndDelete fails; f = 2: Episode.deleteMany fails
CbDeleteSeries(c, u, data, f) ==
  LET seriesId == extractId(data, P_delete_series)
  IN /\ Branch(data) = "delete_series_"
     /\ f \in 0..2
     /\ f = 2 => Has(series, seriesId)
     /\ UNCHANGED <<movies, nextId>> /\ NoButtons
     /\ IF f = 1
        THEN /\ UNCHANGED <<series, episodes>>
             /\ CallbackCatch(c, u, "delete_series_", data, f)
        ELSE IF f = 2
        THEN /\ series' = MapDelete(series, seriesId)
             /\ UNCHANGED episodes
             /\ CallbackCatch(c, u, "delete_series_", data, f)
        ELSE /\ UNCHANGED <<userStates, tempData>>
             /\ series' = MapDelete(series, seriesId)
             /\ episodes' = IF Has(series, seriesId)
                            THEN [e \in (DOMAIN episodes) \ EpisodesOfSeries(seriesId) |-> episodes[e]]
                            ELSE episodes
             /\ Log(c, u, "delete_series_", <<>>, data, f,
                    IF Has(series, seriesId) THEN <<"series_deleted">> ELSE <<"series_not_found">>,
                    1, "")

CbEditMovie(c, u, data, f) ==
  LET movieId == extractId(data, P_edit_movie)
  IN /\ Branch(data) = "edit_movie_"
     /\ f \in 0..1
     /\ StoreUnchanged
     /\ IF f = 1
        THEN /\ NoButtons
             /\ CallbackCatch(c, u, "edit_movie_", data, f)
        ELSE IF Has(movies, movieId)
        THEN /\ tempData' = MapSet(tempData, c,
                               Spread([type |-> "movie", movieId |-> movieId], DocOf(movies, movieId)))
             /\ userStates' = MapSet(userStates, c, "editing_movie")
             /\ SendButtons(c, {P_edit_field_movie \o <<"name">>,
                                P_edit_field_movie \o <<"thumbnail">>,
                                P_edit_field_movie \o <<"streaming", "url">>,
                                P_cancel})
             /\ Log(c, u, "edit_movie_", <<>>, data, f, <<"editing_movie">>, 1, "")
        ELSE /\ UNCHANGED <<userStates, tempData>> /\ NoButtons
             /\ Log(c, u, "edit_movie_", <<>>, data, f, <<"movie_not_found">>, 1, "")

CbEditSeries(c, u, data, f) ==
  LET seriesId == extractId(data, P_edit_series)
  IN /\ Branch(data) = "edit_series_"
     /\ f \in 0..1
     /\ StoreUnchanged
     /\ IF f = 1
        THEN /\ NoButtons
             /\ CallbackCatch(c, u, "edit_series_", data, f)
        ELSE IF Has(series, seriesId)
        THEN /\ tempData' = MapSet(tempData, c,
                               Spread([type |-> "series", seriesId |-> seriesId], DocOf(series, seriesId)))
             /\ userStates' = MapSet(userStates, c, "editing_series")
             /\ SendButtons(c, {P_edit_field_series \o <<"name">>,
                                P_edit_field_series \o <<"thumbnail">>,
                                P_edit_series_episodes \o <<seriesId>>,
                                P_cancel})
             /\ Log(c, u, "edit_series_", <<>>, data, f, <<"editing_series">>, 1, "")
        ELSE /\ UNCHANGED <<userStates, tempData>> /\ NoButtons
             /\ Log(c, u, "edit_series_", <<>>, data, f, <<"series_not_found">>, 1, "")

CbEditFieldMovie(c, u, data) ==
  LET userData == Data(c)
      fieldToEdit == extractId(data, P_edit_field_movie)
  IN /\ Branch(data) = "edit_field_movie_"
     /\ StoreUnchanged
     /\ UNCHANGED tempData /\ NoButtons
     /\ IF ~Has(tempData, c) \/ userData.type # "movie" \/ ~TruthyString(userData, "movieId")
        THEN /\ UNCHANGED userStates
             /\ Log(c, u, "edit_field_movie_", <<>>, data, 0, <<"no_movie_selected">>, 0, "")
        ELSE /\ userStates' = MapSet(userStates, c, "editing_movie_" \o fieldToEdit)
             /\ Log(c, u, "edit_field_movie_", <<>>, data, 0, <<"enter_new_value">>, 1, "")

CbEditFieldSeries(c, u, data) ==
  LET userData == Data(c)
      fieldToEdit == extractId(data, P_edit_field_series)
  IN /\ Branch(data) = "edit_field_series_"
     /\ StoreUnchanged
     /\ UNCHANGED tempData /\ NoButtons
     /\ IF ~Has(tempData, c) \/ userData.type # "series" \/ ~TruthyString(userData, "seriesId")
        THEN /\ UNCHANGED userStates
             /\ Log(c, u, "edit_field_series_", <<>>, data, 0, <<"no_series_selected">>, 0, "")
        ELSE /\ userStates' = MapSet(userStates, c, "editing_series_" \o fieldToEdit)
             /\ Log(c, u, "edit_field_series_", <<>>, data, 0, <<"enter_new_value">>, 1, "")

\* parts = data.split('_'); f = 1: Series.findById fails; f = 2: countDocuments fails
CbSelectSeason(c, u, data, f) ==
  LET seriesId == data[3]
      seasonNumber == IF Len(data) >= 4 THEN ParseIntToken(data[4]) ELSE NaN
      selected == [type |-> "series", seriesId |-> seriesId,
                   seriesName |-> series[seriesId].name, seasonNumber |-> seasonNumber]
      episodeCount == Cardinality(EpisodesOfDraftSeason(selected, "null"))
  IN /\ Branch(data) = "select_season_"
     /\ f \in 0..2
     /\ f = 2 => Has(series, seriesId)
     /\ StoreUnchanged
     /\ IF f = 1
        THEN /\ NoButtons
             /\ CallbackCatch(c, u, "select_season_", data, f)
        ELSE IF ~Has(series, seriesId)
        THEN /\ UNCHANGED <<userStates, tempData>> /\ NoButtons
             /\ Log(c, u, "select_season_", <<>>, data, f, <<"series_not_found">>, 0, "")
        ELSE IF f = 2
        THEN /\ NoButtons
             /\ CallbackCatch(c, u, "select_season_", data, f)
        ELSE /\ tempData' = MapSet(tempData, c, selected)
             /\ UNCHANGED userStates
             /\ SendButtons(c, {P_start_add_episode}
                                 \cup (IF episodeCount > 0 THEN {P_start_edit_episodes} ELSE {}))
             /\ Log(c, u, "select_season_", <<>>, data, f, <<"season_menu">>, 1, "")

CbStartAddEpisode(c, u, data) ==
  LET userData == Data(c)
  IN /\ Branch(data) = "start_add_episode"
     /\ StoreUnchanged
     /\ NoButtons
     /\ IF ~Has(tempData, c) \/ ~TruthyString(userData, "seriesId")
           \/ ~TruthyNumber(userData, "seasonNumber")
        THEN /\ ClearSession(c)
             /\ Log(c, u, "start_add_episode", <<>>, data, 0, <<"no_series_in_progress">>, 0, "")
        ELSE /\ userStates' = MapSet(userStates, c, "adding_episode_number")
             /\ UNCHANGED tempData
             /\ Log(c, u, "start_add_episode", <<>>, data, 0, <<"enter_episode_number">>, 1, "")

\* userData.seriesId of a missing draft throws a TypeError
CbStartEditEpisodes(c, u, data, f, undef) ==
  LET userData == Data(c)
      found == EpisodesOfDraftSeason(userData, undef)
  IN /\ Branch(data) = "start_edit_episodes"
     /\ f \in 0..1
     /\ StoreUnchanged
     /\ IF ~Has(tempData, c) \/ f = 1
        THEN /\ NoButtons
             /\ CallbackCatch(c, u, "start_edit_episodes", data, f)
        ELSE /\ UNCHANGED <<userStates, tempData>>
             /\ IF found = {}
                THEN /\ NoButtons
                     /\ Log(c, u, "start_edit_episodes", <<>>, data, f, <<"no_episodes_to_edit">>, 0, "")
                ELSE /\ SendButtons(c, {P_edit_episode_field \o <<e>> : e \in found})
                     /\ Log(c, u, "start_edit_episodes", <<>>, data, f, <<"select_episode">>, 1, "")

CbEditEpisodeField(c, u, data, f) ==
  LET episodeId == extractId(data, P_edit_episode_field)
      episode == episodes[episodeId]
  IN /\ Branch(data) = "edit_episode_field_"
     /\ f \in 0..1
     /\ StoreUnchanged
     /\ IF f = 1
        THEN /\ NoButtons
             /\ CallbackCatch(c, u, "edit_episode_field_", data, f)
        ELSE IF ~Has(episodes, episodeId)
        THEN /\ UNCHANGED <<userStates, tempData>> /\ NoButtons
             /\ Log(c, u, "edit_episode_field_", <<>>, data, f, <<"episode_not_found">>, 0, "")
        ELSE /\ tempData' = MapSet(tempData, c,
                               [type |-> "episode_edit", episodeId |-> episodeId,
                                seriesId |-> episode.seriesId,
                                seasonNumber |-> episode.seasonNumber,
                                episodeNumber |-> episode.episodeNumber,
                                title |-> episode.title,
                                streamingUrl |-> episode.streamingUrl])
             /\ UNCHANGED userStates
             /\ SendButtons(c, {P_edit_field_episode \o <<"title">>,
                                P_edit_field_episode \o <<"streaming", "url">>,
                                P_cancel})
             /\ Log(c, u, "edit_episode_field_", <<>>, data, f, <<"editing_episode">>, 1, "")

CbEditFieldEpisode(c, u, data) ==
  LET fieldToEdit == extractId(data, P_edit_field_episode)
  IN /\ Branch(data) = "edit_field_episode_"
     /\ userStates' = MapSet(userStates, c, "editing_episode_" \o fieldToEdit)
     /\ StoreUnchanged
     /\ UNCHANGED tempData /\ NoButtons
     /\ Log(c, u, "edit_field_episode_", <<>>, data, 0, <<"enter_new_value">>, 1, "")

CbAddAnotherEpisode(c, u, data) ==
  LET userData == Data(c)
  IN /\ Branch(data) = "add_another_episode"
     /\ StoreUnchanged
     /\ NoButtons
     /\ IF Has(tempData, c) /\ TruthyString(userData, "seriesId")
           /\ TruthyNumber(userData, "seasonNumber")
        THEN /\ userStates' = MapSet(userStates, c, "adding_episode_number")
             /\ UNCHANGED tempData
             /\ Log(c, u, "add_another_episode", <<>>, data, 0, <<"enter_next_episode_number">>, 1, "")
        ELSE /\ ClearSession(c)
             /\ Log(c, u, "add_another_episode", <<>>, data, 0, <<"no_series_in_progress">>, 1, "")

CbFinishSeriesFlow(c, u, data) ==
  /\ Branch(data) = "finish_series_flow"
  /\ ClearSession(c)
  /\ StoreUnchanged
  /\ NoButtons
  /\ Log(c, u, "finish_series_flow", <<>>, data, 0, <<"series_management_complete">>, 1, "")

\* a cancel that would delete the state and keep the draft
CbCancel_KeepsDraft(c, u, data) ==
  /\ Branch(data) = "cancel"
  /\ userStates' = MapDelete(userStates, c)
  /\ UNCHANGED tempData
  /\ StoreUnchanged
  /\ NoButtons
  /\ Log(c, u, "cancel", <<>>, data, 0, <<"operation_canceled">>, 1, "")

CbCancel(c, u, data) ==
  /\ Branch(data) = "cancel"
  /\ ClearSession(c)
  /\ StoreUnchanged
  /\ NoButtons
  /\ Log(c, u, "cancel", <<>>, data, 0, <<"operation_canceled">>, 1, "")

\* no test of the chain holds: only bot.answerCallbackQuery
CbUnknown(c, u, data) ==
  /\ Branch(data) = "none"
  /\ UNCHANGED <<userStates, tempData>> /\ NoButtons
  /\ StoreUnchanged
  /\ Log(c, u, "none", <<>>, data, 0, <<>>, 1, "")

-----------------------------------------------------------------------------
(* Updates the chats deliver *)

\* a button left in the chat by an earlier build of the bot
LegacyPayload == <<"finish", "series">>

StoreFailures == 0..2
UndefinedFilter == {"null", "any"}

\* a menu label or /start
MenuUpdate(c, u, text) ==
  \/ OnStart(c, u, text)
  \/ OnAddMovie(c, u, text)
  \/ OnAddSeries(c, u, text)
  \/ \E f \in StoreFailures : OnEditDeleteMovies(c, u, text, f)
  \/ \E f \in StoreFailures : OnEditDeleteSeries(c, u, text, f)
  \/ OnFrontendUrl(c, u, text)
  \/ \E f \in StoreFailures : OnLibraryStats(c, u, text, f)

MovieFlow(c, u, text) ==
  \/ AddingMovieName(c, u, text)
  \/ AddingMovieThumbnail(c, u, text)
  \/ \E f \in StoreFailures : AddingMovieStreamingUrl(c, u, text, f)

SeriesFlow(c, u, text) ==
  \/ AddingSeriesName(c, u, text)
  \/ \E f \in StoreFailures : AddingSeriesThumbnail(c, u, text, f)

EpisodeFlow(c, u, text) ==
  \/ \E f \in StoreFailures, undef \in UndefinedFilter : AddingSeasonNumber(c, u, text, f, undef)
  \/ \E f \in StoreFailures, undef \in UndefinedFilter : AddingEpisodeNumber(c, u, text, f, undef)
  \/ AddingEpisodeTitle(c, u, text)
  \/ \E f \in StoreFailures : AddingEpisodeUrl(c, u, text, f)

MovieEditFlow(c, u, text) ==
  \E f \in StoreFailures, undef \in UndefinedFilter :
    \/ EditingMovieName(c, u, text, f, undef)
    \/ EditingMovieThumbnail(c, u, text, f, undef)
    \/ EditingMovieStreamingUrl(c, u, text, f, undef)

SeriesEditFlow(c, u, text) ==
  \E f \in StoreFailures, undef \in UndefinedFilter :
    \/ EditingSeriesName(c, u, text, f, undef)
    \/ EditingSeriesThumbnail(c, u, text, f, undef)

EpisodeEditFlow(c, u, text) ==
  \E f \in StoreFailures, undef \in UndefinedFilter :
    \/ EditingEpisodeTitle(c, u, text, f, undef)
    \/ EditingEpisodeStreamingUrl(c, u, text, f, undef)

OtherFlow(c, u, text) ==
  \/ FlowDefault(c, u, text)
  \/ FlowTypeError(c, u, text)

\* any message that is no menu label: handleConversationFlow
FlowUpdate(c, u, text) ==
  \/ MovieFlow(c, u, text)
  \/ SeriesFlow(c, u, text)
  \/ EpisodeFlow(c, u, text)
  \/ MovieEditFlow(c, u, text)
  \/ SeriesEditFlow(c, u, text)
  \/ EpisodeEditFlow(c, u, text)
  \/ OtherFlow(c, u, text)

MovieCallback(c, u, data) ==
  \/ \E f \in StoreFailures : CbDeleteMovie(c, u, data, f)
  \/ \E f \in StoreFailures : CbEditMovie(c, u, data, f)
  \/ CbEditFieldMovie(c, u, data)

SeriesCallback(c, u, data) ==
  \/ \E f \in StoreFailures : CbEditSeriesEpisodes(c, u, data, f)
  \/ \E f \in StoreFailures : CbDeleteSeries(c, u, data, f)
  \/ \E f \in StoreFailures : CbEditSeries(c, u, data, f)
  \/ CbEditFieldSeries(c, u, data)

EpisodeCallback(c, u, data) ==
  \/ CbAddNewSeasonToSeries(c, u, data)
  \/ \E f \in StoreFailures : CbSelectSeason(c, u, data, f)
  \/ CbStartAddEpisode(c, u, data)
  \/ CbAddAnotherEpisode(c, u, data)
  \/ CbFinishSeriesFlow(c, u, data)

EpisodeEditCallback(c, u, data) ==
  \/ \E f \in StoreFailures, undef \in UndefinedFilter : CbStartEditEpisodes(c, u, data, f, undef)
  \/ \E f \in StoreFailures : CbEditEpisodeField(c, u, data, f)
  \/ CbEditFieldEpisode(c, u, data)

OtherCallback(c, u, data) ==
  \/ CbCancel(c, u, data)
  \/ CbUnknown(c, u, data)

\* a press of an inline button
CallbackUpdate(c, u, data) ==
  \/ MovieCallback(c, u, data)
  \/ SeriesCallback(c, u, data)
  \/ EpisodeCallback(c, u, data)
  \/ EpisodeEditCallback(c, u, data)
  \/ OtherCallback(c, u, data)

-----------------------------------------------------------------------------
(* What the process finds at start-up *)

\* documents an earlier run left in the store
SeedMovies ==
  "m0" :> [name |-> <<"m">>, thumbnail |-> <<"t">>, streamingUrl |-> <<"u">>,
           addedBy |-> 101, type |-> "movie"]

SeedSeries ==
  ("s0" :> [name |-> <<"s">>, thumbnail |-> <<"t">>, addedBy |-> 101, type |-> "series"])
  @@ ("s1" :> [name |-> <<"r">>, thumbnail |-> <<"t">>, addedBy |-> 102, type |-> "series"])

SeedEpisodes ==
  ("e0" :> [seriesId |-> "s0", seasonNumber |-> 1, episodeNumber |-> 1,
            title |-> <<"p">>, streamingUrl |-> <<"u">>, addedBy |-> 101])
  @@ ("e1" :> [seriesId |-> "s1", seasonNumber |-> 1, episodeNumber |-> 1,
               title |-> <<"q">>, streamingUrl |-> <<"u">>, addedBy |-> 102])

\* process.env without a variable gives undefined
Unset == "undefined"

\* !!value of an environment string
Set(v) == v # Unset /\ v # ""

\* a process that has started up: both values set, polling mode
Booted ==
  [server |-> "part_002",
   env |-> [BOT_TOKEN |-> "t", MONGODB_URI |-> "u", USE_WEBHOOK |-> Unset],
   BOT_TOKEN |-> "t", MONGODB_URI |-> "u", pc |-> "ready", exited |-> FALSE, code |-> 0,
   bot |-> TRUE, connect |-> TRUE, listen |-> TRUE]

PollQuiet == [server |-> "part_000", timers |-> <<>>, restarts |-> 0, efatal |-> 0, other |-> 0]

\* the sessions are in-process maps: empty at start
InitMaps ==
  /\ userStates = Empty
  /\ tempData = Empty
  /\ nextId = 1
  /\ keyboard = {}
  /\ pending = <<>>
  /\ response = [path |-> "", id |-> "", f |-> 0, status |-> 0, ids |-> {}, counts |-> <<>>,
                 doc |-> Empty, list |-> <<>>, error |-> "", seen |-> <<>>]
  /\ transcript = [c \in Chats |-> <<>>]
  /\ last = [chat |-> 0, user |-> 0, branch |-> "init", text |-> <<>>, data |-> <<>>,
             f |-> 0, sent |-> <<>>, answered |-> 0, created |-> ""]

InitSessions ==
  /\ InitMaps
  /\ boot = Booted
  /\ poll = PollQuiet

InitFresh ==
  /\ InitSessions
  /\ movies = Empty
  /\ series = Empty
  /\ episodes = Empty

InitSeeded ==
  /\ InitSessions
  /\ movies = SeedMovies
  /\ series = SeedSeries
  /\ episodes = SeedEpisodes

\* every _id a payload can carry
Ids == {"m0", "s0", "s1", "e0", "e1"} \cup {ToString(n) : n \in 1..MaxIds}

\* the payloads the bot attaches to its buttons
Payloads ==
  {P_edit_movie \o <<i>> : i \in Ids} \cup {P_delete_movie \o <<i>> : i \in Ids}
  \cup {P_edit_series \o <<i>> : i \in Ids} \cup {P_delete_series \o <<i>> : i \in Ids}
  \cup {P_edit_series_episodes \o <<i>> : i \in Ids}
  \cup {P_add_new_season_to_series \o <<i>> : i \in Ids}
  \cup {P_select_season \o <<i, ToString(n)>> : i \in Ids, n \in 1..MaxNumber}
  \cup {P_edit_episode_field \o <<i>> : i \in Ids}
  \cup {P_edit_field_movie \o <<"name">>, P_edit_field_movie \o <<"thumbnail">>,
        P_edit_field_movie \o <<"streaming", "url">>,
        P_edit_field_series \o <<"name">>, P_edit_field_series \o <<"thumbnail">>,
        P_edit_field_episode \o <<"title">>, P_edit_field_episode \o <<"streaming", "url">>,
        P_start_add_episode, P_start_edit_episodes, P_add_another_episode,
        P_finish_series_flow, P_cancel, LegacyPayload}

\* free text the users type
NameTexts == {<<" ", "a", " ">>, <<"b">>, <<" ">>}
NumberTexts == {<<"1">>, <<" ", "2">>, <<"0">>, <<"-", "1">>, <<"+", "1">>, <<"x">>}

-----------------------------------------------------------------------------
(* The whole bot: every update, from any chat *)

Next ==
  \E c \in Chats, u \in Users :
    \/ \E text \in MenuTexts : MenuUpdate(c, u, text)
    \/ \E text \in NameTexts \cup NumberTexts \cup {Undefined} : FlowUpdate(c, u, text)
    \/ \E data \in Payloads : CallbackUpdate(c, u, data)

Spec == InitSeeded /\ [][Next]_vars

-----------------------------------------------------------------------------
(* The movie flow: one chat, two senders *)

MovieTexts == {<<" ", "a", " ">>, <<"b">>, Undefined}

NextMovies ==
  \E u \in Users :
    \/ OnStart(1, u, StartCommand)
    \/ OnAddMovie(1, u, AddMovieLabel)
    \/ \E text \in MovieTexts : MovieFlow(1, u, text) \/ OtherFlow(1, u, text)
    \/ CbCancel(1, u, P_cancel)

SpecMovies == InitSeeded /\ [][NextMovies]_vars

-----------------------------------------------------------------------------
(* The series and episode flows: one chat *)

EpisodeTexts == {<<" ", "a", " ">>}

EpisodePayloads ==
  {P_add_new_season_to_series \o <<"s0">>, P_select_season \o <<"s0", "1">>,
   P_start_add_episode, P_add_another_episode, P_finish_series_flow}

\* the user answers a prompt for a number with one of NumberTexts
NextEpisodes ==
  \/ OnStart(1, 101, StartCommand)
  \/ OnAddSeries(1, 101, AddSeriesLabel)
  \/ \E text \in EpisodeTexts : SeriesFlow(1, 101, text)
  \/ \E text \in NumberTexts, f \in StoreFailures, undef \in UndefinedFilter :
       \/ AddingSeasonNumber(1, 101, text, f, undef)
       \/ AddingEpisodeNumber(1, 101, text, f, undef)
  \/ \E text \in EpisodeTexts :
       \/ AddingEpisodeTitle(1, 101, text)
       \/ \E f \in StoreFailures : AddingEpisodeUrl(1, 101, text, f)
  \/ \E text \in EpisodeTexts \cup {Undefined} : OtherFlow(1, 101, text)
  \/ \E data \in EpisodePayloads : EpisodeCallback(1, 101, data)

SpecEpisodes == InitSeeded /\ [][NextEpisodes]_vars

-----------------------------------------------------------------------------
(* Two chats adding episodes to the same series *)

RaceNumbers == {<<"1">>, <<"2">>}

RacePayloads == {P_add_new_season_to_series \o <<"s0">>, P_add_another_episode}

\* chat c is the private chat of user 100 + c
NextRace ==
  \E c \in Chats :
    \/ \E text \in RaceNumbers, f \in StoreFailures, undef \in UndefinedFilter :
         \/ AddingSeasonNumber(c, 100 + c, text, f, undef)
         \/ AddingEpisodeNumber(c, 100 + c, text, f, undef)
    \/ \E text \in EpisodeTexts :
         \/ AddingEpisodeTitle(c, 100 + c, text)
         \/ \E f \in StoreFailures : AddingEpisodeUrl(c, 100 + c, text, f)
    \/ \E data \in RacePayloads :
         CbAddNewSeasonToSeries(c, 100 + c, data) \/ CbAddAnotherEpisode(c, 100 + c, data)

SpecRace == InitSeeded /\ [][NextRace]_vars

-----------------------------------------------------------------------------
(* Listing, deleting and editing what is in the catalog: one chat *)

CatalogPayloads ==
  {P_delete_series \o <<"s0">>, P_delete_series \o <<"1">>, P_delete_movie \o <<"m0">>,
   P_edit_series \o <<"s1">>, P_edit_field_series \o <<"name">>,
   P_edit_series_episodes \o <<"s1">>, P_cancel}

NextCatalog ==
  \/ \E text \in MenuTexts : MenuUpdate(1, 101, text)
  \/ \E text \in {<<"b">>, Undefined} :
       \/ SeriesFlow(1, 101, text)
       \/ SeriesEditFlow(1, 101, text)
       \/ OtherFlow(1, 101, text)
  \/ \E data \in CatalogPayloads :
       \/ \E f \in StoreFailures : CbDeleteMovie(1, 101, data, f)
       \/ SeriesCallback(1, 101, data)
       \/ CbCancel(1, 101, data)

SpecCatalog == InitSeeded /\ [][NextCatalog]_vars

-----------------------------------------------------------------------------
(* Editing a field of a movie, a series or an episode: one chat *)

EditPayloads ==
  {P_edit_movie \o <<"m0">>, P_edit_field_movie \o <<"name">>,
   P_edit_field_movie \o <<"streaming", "url">>,
   P_edit_series \o <<"s1">>, P_edit_field_series \o <<"thumbnail">>,
   P_edit_episode_field \o <<"e0">>, P_edit_field_episode \o <<"title">>,
   P_cancel}

\* the editing_* cases that the buttons of EditPayloads lead to
NextEdit ==
  \/ \E text \in EpisodeTexts, f \in StoreFailures, undef \in UndefinedFilter :
       \/ EditingMovieName(1, 101, text, f, undef)
       \/ EditingMovieStreamingUrl(1, 101, text, f, undef)
       \/ EditingSeriesThumbnail(1, 101, text, f, undef)
       \/ EditingEpisodeTitle(1, 101, text, f, undef)
  \/ \E text \in EpisodeTexts : FlowDefault(1, 101, text)
  \/ \E data \in EditPayloads :
       \/ \E f \in StoreFailures : CbEditMovie(1, 101, data, f)
       \/ CbEditFieldMovie(1, 101, data)
       \/ \E f \in StoreFailures : CbEditSeries(1, 101, data, f)
       \/ CbEditFieldSeries(1, 101, data)
       \/ \E f \in StoreFailures : CbEditEpisodeField(1, 101, data, f)
       \/ CbEditFieldEpisode(1, 101, data)
       \/ CbCancel(1, 101, data)

SpecEdit == InitSeeded /\ [][NextEdit]_vars

-----------------------------------------------------------------------------
(* The movie commit, step by step: handlers are async functions that nobody
   awaits, so a second update is dispatched while a first one is suspended *)

Suspended == {i \in DOMAIN pending : ~pending[i].done}

Idle == Suspended = {}

\* the handlers dispatched since the bot was last idle
Journal == IF Idle THEN <<>> ELSE pending

\* a router that would hold back the updates of a chat with a suspended handler
StreamingUrlDispatch_Serialized(c, u, text) ==
  LET data == MapSet(Data(c), "streamingUrl", Trim(text))
  IN /\ InFlow(c, text, "adding_movie_streaming_url")
     /\ \A i \in Suspended : pending[i].chat # c
     /\ Len(Journal) < MaxPending
     /\ pending' = Append(Journal,
                          [chat |-> c, user |-> u, text |-> text, state |-> UserState(c),
                           doc |-> MovieDoc(data, u), alias |-> Has(tempData, c),
                           data |-> data, done |-> FALSE, created |-> ""])
     /\ tempData' = IF Has(tempData, c) THEN MapSet(tempData, c, data) ELSE tempData
     /\ UNCHANGED <<userStates, movies, series, episodes, nextId, keyboard, transcript, last,
                    response, boot, poll>>

\* case 'adding_movie_streaming_url' up to 'await movie.save()': the state and
\* the draft object are read, the draft object (shared with tempData) gets
\* its streamingUrl, the document is built from it
StreamingUrlDispatch(c, u, text) ==
  LET data == MapSet(Data(c), "streamingUrl", Trim(text))
  IN /\ InFlow(c, text, "adding_movie_streaming_url")
     /\ Len(Journal) < MaxPending
     /\ pending' = Append(Journal,
                          [chat |-> c, user |-> u, text |-> text, state |-> UserState(c),
                           doc |-> MovieDoc(data, u), alias |-> Has(tempData, c),
                           data |-> data, done |-> FALSE, created |-> ""])
     /\ tempData' = IF Has(tempData, c) THEN MapSet(tempData, c, data) ELSE tempData
     /\ UNCHANGED <<userStates, movies, series, episodes, nextId, keyboard, transcript, last,
                    response, boot, poll>>

\* the oldest suspended handler goes on from 'await movie.save()' to its end:
\* the save resolves or rejects (f), one message is sent, the session is
\* deleted and the draft object written back
StreamingUrlResume(f) ==
  /\ ~Idle
  /\ f \in 0..1
  /\ LET i == CHOOSE k \in Suspended : \A j \in Suspended : k <= j
         r == pending[i]
         c == r.chat
         data == IF r.alias THEN Data(c) ELSE r.data
         saved == f = 0 /\ MovieValid(r.doc)
     IN /\ saved => nextId <= MaxIds
        /\ movies' = IF saved THEN MapSet(movies, NewId, r.doc) ELSE movies
        /\ nextId' = IF saved THEN nextId + 1 ELSE nextId
        /\ UNCHANGED <<series, episodes>> /\ NoButtons
        /\ userStates' = MapDelete(userStates, c)
        /\ tempData' = WriteBack(MapDelete(tempData, c), c, data)
        /\ pending' = [pending EXCEPT ![i] =
                         [r EXCEPT !.done = TRUE, !.created = IF saved THEN NewId ELSE ""]]
        /\ Record(c, r.user, "adding_movie_streaming_url", r.text, <<>>, f,
                  IF saved THEN <<"movie_added">> ELSE <<"error_adding_movie">>,
                  0, IF saved THEN NewId ELSE "")

\* case 'adding_movie_streaming_url' when the save succeeds and the first g
\* sends of the handler throw: the confirmation throws inside the inner try,
\* so the inner catch sends 'Error adding movie'; if that send throws too
\* (g = 2) the outer catch sends 'An error occurred' and deletes the session
AddingMovieStreamingUrlUnsent(c, u, text, g) ==
  LET data == MapSet(Data(c), "streamingUrl", Trim(text))
      doc == MovieDoc(data, u)
  IN /\ InFlow(c, text, "adding_movie_streaming_url")
     /\ g \in 1..2
     /\ MovieValid(doc)
     /\ nextId <= MaxIds
     /\ movies' = MapSet(movies, NewId, doc)
     /\ nextId' = nextId + 1
     /\ UNCHANGED <<series, episodes>> /\ NoButtons
     /\ userStates' = MapDelete(userStates, c)
     /\ tempData' = IF g = 1 THEN WriteBack(MapDelete(tempData, c), c, data)
                   ELSE MapDelete(tempData, c)
     /\ Log(c, u, "adding_movie_streaming_url", text, <<>>, 0,
            IF g = 1 THEN <<"error_adding_movie">> ELSE <<"error_occurred">>, 0, NewId)

OverlapTexts == {<<"a">>, <<" ">>}

\* the other updates are handled while no handler is suspended
NextOverlap ==
  \/ Idle /\ OnAddMovie(1, 101, AddMovieLabel)
  \/ \E text \in OverlapTexts :
       \/ Idle /\ AddingMovieName(1, 101, text)
       \/ Idle /\ AddingMovieThumbnail(1, 101, text)
       \/ Idle /\ FlowDefault(1, 101, text)
       \/ \E g \in 1..2 : Idle /\ AddingMovieStreamingUrlUnsent(1, 101, text, g)
       \/ StreamingUrlDispatch(1, 101, text)
  \/ \E f \in 0..1 : StreamingUrlResume(f)

SpecOverlap == InitFresh /\ [][NextOverlap]_vars

-----------------------------------------------------------------------------
(* API endpoints for the frontend *)

BotUnchanged ==
  UNCHANGED <<userStates, tempData, movies, series, episodes, nextId, keyboard, transcript,
              last, pending, boot, poll>>

\* a response to the request (path, id or search, f); seen is the catalog
\* the handler read
Blank(path, id, f, status) ==
  [path |-> path, id |-> id, f |-> f, status |-> status, ids |-> {}, counts |-> <<>>,
   doc |-> Empty, list |-> <<>>, error |-> "", seen |-> <<movies, series, episodes>>]

\* res.status(status).json({ error: ... })
Failed(path, id, f, status, error) == [Blank(path, id, f, status) EXCEPT !.error = error]

Respond(r) == response' = r

\* { name: { $regex: search, $options: 'i' } } for a one-character search;
\* "" stands for no search parameter
NameMatches(doc, search) == search = "" \/ \E i \in DOMAIN doc.name : doc.name[i] = search

\* .sort({ seasonNumber: 1, episodeNumber: 1 }): every order of the found
\* episodes that the two keys allow (equal keys come in any order)
SortedEpisodes(found) ==
  {l \in [1..Cardinality(found) -> found] :
     /\ \A i, j \in DOMAIN l : i # j => l[i] # l[j]
     /\ \A i, j \in DOMAIN l :
          i < j => \/ episodes[l[i]].seasonNumber < episodes[l[j]].seasonNumber
                   \/ /\ episodes[l[i]].seasonNumber = episodes[l[j]].seasonNumber
                      /\ episodes[l[i]].episodeNumber <= episodes[l[j]].episodeNumber}

\* app.get('/health')
GetHealth ==
  /\ BotUnchanged
  /\ Respond(Blank("/health", "", 0, 200))

\* app.get('/api')
GetApi ==
  /\ BotUnchanged
  /\ Respond(Blank("/api", "", 0, 200))

\* an /api/series/:id that would remove what it has served
GetApiSeries_Consuming(id, f) ==
  /\ f \in 0..1
  /\ UNCHANGED <<userStates, tempData, movies, episodes, nextId, keyboard, transcript,
                 last, pending, boot, poll>>
  /\ series' = IF f = 0 THEN MapDelete(series, id) ELSE series
  /\ IF f = 1
     THEN Respond(Failed("/api/series/:id", id, f, 500, "Failed to fetch series details"))
     ELSE IF ~Has(series, id)
     THEN Respond(Failed("/api/series/:id", id, f, 404, "Series not found"))
     ELSE \E l \in SortedEpisodes(EpisodesOfSeries(id)) :
            Respond([Blank("/api/series/:id", id, f, 200) EXCEPT
                       !.doc = DocOf(series, id), !.list = l])

\* app.get('/api/series/:id'); f = 1: a query of the store rejects (an id
\* the store cannot cast included)
GetApiSeries(id, f) ==
  /\ f \in 0..1
  /\ BotUnchanged
  /\ IF f = 1
     THEN Respond(Failed("/api/series/:id", id, f, 500, "Failed to fetch series details"))
     ELSE IF ~Has(series, id)
     THEN Respond(Failed("/api/series/:id", id, f, 404, "Series not found"))
     ELSE \E l \in SortedEpisodes(EpisodesOfSeries(id)) :
            Respond([Blank("/api/series/:id", id, f, 200) EXCEPT
                       !.doc = DocOf(series, id), !.list = l])

\* addedAt: { type: Date, default: Date.now }: the seeded documents carry the
\* times of their creation before start-up, a document created later the time
\* of its creation
AddedAt(id) ==
  IF id = "m0" THEN 1 ELSE IF id = "s0" THEN 2 ELSE IF id = "s1" THEN 3
  ELSE IF id = "e0" THEN 4 ELSE IF id = "e1" THEN 5
  ELSE 10 + (CHOOSE n \in 1..(MaxIds + 1) : ToString(n) = id)

\* .sort({ addedAt: -1 }) and results.sort((a, b) => b.addedAt - a.addedAt)
RECURSIVE NewestFirst(_)
NewestFirst(S) ==
  IF S = {} THEN <<>>
  ELSE LET x == CHOOSE x \in S : \A y \in S : AddedAt(y) <= AddedAt(x)
       IN <<x>> \o NewestFirst(S \ {x})

\* .limit(limit).skip(offset) of a sorted query
LimitSkip(seq, limit, offset) ==
  SubSeq(seq, offset + 1, IF offset + limit < Len(seq) THEN offset + limit ELSE Len(seq))

SeqRange(seq) == {seq[i] : i \in DOMAIN seq}

\* app.get('/api/media'), for a page and a limit that parse to numbers >= 1
GetApiMedia(page, limit, search, type, f) ==
  LET offset == (ParseInt(page) - 1) * ParseInt(limit)
      foundMovies == IF type \in {"", "movie"}
                     THEN LimitSkip(NewestFirst({i \in DOMAIN movies : NameMatches(movies[i], search)}),
                                    ParseInt(limit), offset)
                     ELSE <<>>
      foundSeries == IF type \in {"", "series"}
                     THEN LimitSkip(NewestFirst({i \in DOMAIN series : NameMatches(series[i], search)}),
                                    ParseInt(limit), offset)
                     ELSE <<>>
      results == NewestFirst(SeqRange(foundMovies \o foundSeries))
  IN /\ f \in 0..1
     /\ ParseInt(page) >= 1 /\ ParseInt(limit) >= 1
     /\ BotUnchanged
     /\ IF f = 1 THEN Respond(Failed("/api/media", search, f, 500, "Failed to fetch media"))
        ELSE Respond([Blank("/api/media", search, f, 200) EXCEPT
                        !.ids = SeqRange(results), !.list = results])

\* a /api/stats that would answer 200 with empty counts when a count fails
GetApiStats_AlwaysOk(f) ==
  /\ f \in 0..1
  /\ BotUnchanged
  /\ Respond([Blank("/api/stats", "", f, 200) EXCEPT !.counts = <<0, 0, 0, 0>>])

\* app.get('/api/stats')
GetApiStats(f) ==
  LET movieCount == Cardinality(DOMAIN movies)
      seriesCount == Cardinality(DOMAIN series)
      episodeCount == Cardinality(DOMAIN episodes)
  IN /\ f \in 0..1
     /\ BotUnchanged
     /\ IF f = 1 THEN Respond(Failed("/api/stats", "", f, 500, "Failed to fetch statistics"))
        ELSE Respond([Blank("/api/stats", "", f, 200) EXCEPT
                        !.counts = <<movieCount, seriesCount, episodeCount,
                                     movieCount + seriesCount>>])

HttpPayloads == {P_delete_movie \o <<"m0">>, P_delete_series \o <<"s1">>, P_cancel}

\* the frontend's requests, next to a chat that adds and deletes records
NextHttp ==
  \/ GetHealth
  \/ GetApi
  \/ \E id \in {"s0", "s1", "m0"}, f \in 0..1 : GetApiSeries(id, f)
  \/ \E search \in {"", "m"}, type \in {"", "movie", "series", "x"}, f \in 0..1 :
       GetApiMedia(<<"1">>, <<"5", "0">>, search, type, f)
  \/ \E f \in 0..1 : GetApiStats(f)
  \/ OnAddMovie(1, 101, AddMovieLabel)
  \/ \E text \in {<<"b">>} : MovieFlow(1, 101, text)
  \/ \E data \in HttpPayloads :
       \/ \E f \in StoreFailures : CbDeleteMovie(1, 101, data, f)
       \/ \E f \in StoreFailures : CbDeleteSeries(1, 101, data, f)
       \/ CbCancel(1, 101, data)

SpecHttp == InitSeeded /\ [][NextHttp]_vars

\* two chats add episodes to series s0 while the frontend fetches it
NextFetch ==
  \/ \E f \in 0..1 : GetApiSeries("s0", f)
  \/ \E c \in Chats :
       \/ \E f \in StoreFailures, undef \in UndefinedFilter :
            AddingEpisodeNumber(c, 100 + c, <<"2">>, f, undef)
       \/ \E text \in EpisodeTexts :
            \/ AddingEpisodeTitle(c, 100 + c, text)
            \/ \E f \in StoreFailures : AddingEpisodeUrl(c, 100 + c, text, f)
       \/ CbSelectSeason(c, 100 + c, P_select_season \o <<"s0", "1">>, 0)
       \/ CbStartAddEpisode(c, 100 + c, P_start_add_episode)

SpecFetch == InitSeeded /\ [][NextFetch]_vars

-----------------------------------------------------------------------------
(* The add flows with buttons of earlier messages pressed in between *)

StalePayloads ==
  {P_select_season \o <<"s0", "1">>, P_edit_series_episodes \o <<"s0">>,
   P_start_add_episode, P_add_another_episode, P_cancel}

NextStale ==
  \/ OnAddMovie(1, 101, AddMovieLabel)
  \/ OnAddSeries(1, 101, AddSeriesLabel)
  \/ MovieFlow(1, 101, <<"b">>)
  \/ SeriesFlow(1, 101, <<"b">>)
  \/ \E undef \in UndefinedFilter :
       \/ AddingSeasonNumber(1, 101, <<"2">>, 0, undef)
       \/ AddingEpisodeNumber(1, 101, <<"2">>, 0, undef)
  \/ AddingEpisodeTitle(1, 101, <<"b">>)
  \/ AddingEpisodeUrl(1, 101, <<"b">>, 0)
  \/ FlowDefault(1, 101, <<"b">>)
  \/ \E data \in StalePayloads :
       \/ CbSelectSeason(1, 101, data, 0)
       \/ CbEditSeriesEpisodes(1, 101, data, 0)
       \/ CbStartAddEpisode(1, 101, data)
       \/ CbAddAnotherEpisode(1, 101, data)
       \/ CbCancel(1, 101, data)

SpecStale == InitSeeded /\ [][NextStale]_vars

-----------------------------------------------------------------------------
(* The number prompts, answered with digits followed by other characters *)

PrefixTexts == {<<"2">>, <<"2", "a">>, <<"1", ".", "5">>, <<"a", "2">>}

NextNumbers ==
  \E c \in Chats :
    \/ CbAddNewSeasonToSeries(c, 100 + c, P_add_new_season_to_series \o <<"s0">>)
    \/ CbAddAnotherEpisode(c, 100 + c, P_add_another_episode)
    \/ \E text \in PrefixTexts, undef \in UndefinedFilter :
         \/ AddingSeasonNumber(c, 100 + c, text, 0, undef)
         \/ AddingEpisodeNumber(c, 100 + c, text, 0, undef)
    \/ AddingEpisodeTitle(c, 100 + c, <<"b">>)
    \/ AddingEpisodeUrl(c, 100 + c, <<"b">>, 0)

SpecNumbers == InitSeeded /\ [][NextNumbers]_vars

-----------------------------------------------------------------------------
(* CONFIGURATION and start-up, of src/unnamed/part_002 and of src/index.js *)

Servers == {"part_002", "index.js"}

EnvValues == {Unset, "", "x"}

\* the fallbacks written into src/index.js
IndexFallbackToken == "7545348868:..."
IndexFallbackUri == "mongodb+srv://movie:..."

\* what a start-up step leaves alone
Starting(pc) ==
  /\ ~boot.exited
  /\ boot.pc = pc
  /\ UNCHANGED <<userStates, tempData, movies, series, episodes, nextId, keyboard,
                 transcript, last, pending, response, poll>>

\* process.exit(1)
Exit1 == [boot EXCEPT !.exited = TRUE, !.code = 1, !.pc = "exited"]

\* const BOT_TOKEN = process.env.BOT_TOKEN [|| fallback]; the same for MONGODB_URI
LoadConfig ==
  /\ Starting("config")
  /\ boot' = IF boot.server = "index.js"
             THEN [boot EXCEPT
                     !.BOT_TOKEN = IF Set(boot.env.BOT_TOKEN) THEN boot.env.BOT_TOKEN
                                   ELSE IndexFallbackToken,
                     !.MONGODB_URI = IF Set(boot.env.MONGODB_URI) THEN boot.env.MONGODB_URI
                                     ELSE IndexFallbackUri,
                     !.pc = "create_bot"]
             ELSE [boot EXCEPT !.BOT_TOKEN = boot.env.BOT_TOKEN,
                               !.MONGODB_URI = boot.env.MONGODB_URI,
                               !.pc = "check_token"]

\* if (!BOT_TOKEN) process.exit(1)
CheckToken ==
  /\ Starting("check_token")
  /\ boot' = IF ~Set(boot.BOT_TOKEN) THEN Exit1 ELSE [boot EXCEPT !.pc = "check_uri"]

\* if (!MONGODB_URI) process.exit(1)
CheckUri ==
  /\ Starting("check_uri")
  /\ boot' = IF ~Set(boot.MONGODB_URI) THEN Exit1 ELSE [boot EXCEPT !.pc = "create_bot"]

\* new TelegramBot(BOT_TOKEN, ...)
CreateBot ==
  /\ Starting("create_bot")
  /\ boot' = [boot EXCEPT !.bot = TRUE, !.pc = "connect"]

\* mongoose.connect(MONGODB_URI, ...)
Connect ==
  /\ Starting("connect")
  /\ boot' = [boot EXCEPT !.connect = TRUE, !.pc = "listen"]

\* app.listen(PORT, ...)
Listen ==
  /\ Starting("listen")
  /\ boot' = [boot EXCEPT !.listen = TRUE, !.pc = "ready"]

\* the connection promise rejects: part_002 exits, index.js only logs
ConnectRejected ==
  /\ ~boot.exited
  /\ boot.connect
  /\ boot.pc \in {"listen", "ready"}
  /\ boot.server = "part_002"
  /\ boot' = Exit1
  /\ UNCHANGED <<userStates, tempData, movies, series, episodes, nextId, keyboard,
                 transcript, last, pending, response, poll>>

InitBoot ==
  /\ InitMaps
  /\ movies = Empty /\ series = Empty /\ episodes = Empty
  /\ poll = PollQuiet
  /\ \E server \in Servers, token \in EnvValues, uri \in EnvValues, hook \in {Unset, "true"} :
       boot = [server |-> server,
               env |-> [BOT_TOKEN |-> token, MONGODB_URI |-> uri, USE_WEBHOOK |-> hook],
               BOT_TOKEN |-> Unset, MONGODB_URI |-> Unset, pc |-> "config",
               exited |-> FALSE, code |-> 0,
               bot |-> FALSE, connect |-> FALSE, listen |-> FALSE]

NextBoot ==
  \/ LoadConfig
  \/ CheckToken
  \/ CheckUri
  \/ CreateBot
  \/ Connect
  \/ Listen
  \/ ConnectRejected

SpecBoot == InitBoot /\ [][NextBoot]_vars

-----------------------------------------------------------------------------
(* Season selection: the router treats identifiers as opaque, so the store
   may hold a series whose identifier contains the payload separator *)

SeparatorId == "s_2"

SeparatorSeries ==
  SeparatorId :> [name |-> <<"q">>, thumbnail |-> <<"t">>, addedBy |-> 101, type |-> "series"]

SeparatorEpisodes ==
  "e1" :> [seriesId |-> SeparatorId, seasonNumber |-> 1, episodeNumber |-> 1,
           title |-> <<"q">>, streamingUrl |-> <<"u">>, addedBy |-> 101]

InitSeason ==
  /\ InitSessions
  /\ movies = SeedMovies
  /\ series = ("s0" :> SeedSeries["s0"]) @@ SeparatorSeries
  /\ episodes = ("e0" :> SeedEpisodes["e0"]) @@ SeparatorEpisodes

SeasonIds == {"s0", SeparatorId}

\* the season buttons the bot builds for SeasonIds, and the buttons under them
SeasonPayloads ==
  {P_edit_series_episodes \o split(i) : i \in SeasonIds}
  \cup {P_select_season \o split(i) \o <<ToString(n)>> : i \in SeasonIds, n \in 1..MaxNumber}
  \cup {P_start_add_episode, P_start_edit_episodes, P_cancel}

NextSeason ==
  \E c \in Chats :
    \/ \E data \in SeasonPayloads, f \in StoreFailures :
         \/ CbEditSeriesEpisodes(c, 100 + c, data, f)
         \/ CbSelectSeason(c, 100 + c, data, f)
         \/ \E undef \in UndefinedFilter : CbStartEditEpisodes(c, 100 + c, data, f, undef)
    \/ \E data \in SeasonPayloads :
         \/ CbStartAddEpisode(c, 100 + c, data)
         \/ CbCancel(c, 100 + c, data)
    \/ CbUnknown(c, 100 + c, LegacyPayload)

SpecSeason == InitSeason /\ [][NextSeason]_vars

-----------------------------------------------------------------------------
(* The bot of src/index.js (series with embedded seasons): its message      *)
(* handler, the movie flow and the default case of handleConversationFlow.  *)
(* It has maps of its own, modelled by the same variables.                  *)

OpenFrontendLabel == <<"O", "p", "e", "n", " ", "F", "r", "o", "n", "t", "e", "n", "d">>

\* the texts that bot.on('message') of src/index.js tests for
IndexMenuTexts ==
  {StartCommand, AddMovieLabel, AddSeriesLabel, EditDeleteMoviesLabel,
   EditDeleteSeriesLabel, OpenFrontendLabel}

\* the case labels of its switch
IndexFlowStates ==
  {"adding_movie_name", "adding_movie_thumbnail", "adding_movie_streaming_url",
   "adding_series_name", "adding_series_thumbnail", "adding_season_number_existing",
   "adding_season_number", "adding_episode_number", "adding_episode_title",
   "adding_episode_url"}

\* data.key = text: a text that is undefined leaves no path to save
IndexAssign(data, key, text) ==
  IF text = Undefined THEN MapDelete(data, key) ELSE MapSet(data, key, text)

\* new Movie({ ...data, addedBy: userId }): this movieSchema has no type path
IndexMovieDoc(data, userId) ==
  [k \in ((DOMAIN data) \cap {"name", "thumbnail", "streamingUrl"}) \cup {"addedBy"} |->
     IF k = "addedBy" THEN userId ELSE data[k]]

\* /start sends the menu and leaves the session as it is
IndexOnStart(c, u, text) ==
  /\ text = StartCommand
  /\ UNCHANGED <<userStates, tempData>>
  /\ StoreUnchanged
  /\ NoButtons
  /\ Log(c, u, "/start", text, <<>>, 0, <<"welcome">>, 0, "")

IndexOnAddMovie(c, u, text) ==
  /\ text = AddMovieLabel
  /\ userStates' = MapSet(userStates, c, "adding_movie_name")
  /\ tempData' = MapSet(tempData, c, [type |-> "movie"])
  /\ StoreUnchanged
  /\ NoButtons
  /\ Log(c, u, "Add Movie", text, <<>>, 0, <<"enter_movie_name">>, 0, "")

\* the else branch of its bot.on('message'), in state `state`
IndexInFlow(c, text, state) ==
  /\ text \notin IndexMenuTexts
  /\ UserState(c) = state

\* a case that stores the text as typed; tempData.set(chatId, data) follows the switch
IndexCollectField(c, u, text, state, key, next, prompt) ==
  /\ IndexInFlow(c, text, state)
  /\ userStates' = MapSet(userStates, c, next)
  /\ tempData' = MapSet(tempData, c, IndexAssign(Data(c), key, text))
  /\ StoreUnchanged
  /\ NoButtons
  /\ Log(c, u, state, text, <<>>, 0, <<prompt>>, 0, "")

IndexAddingMovieName(c, u, text) ==
  IndexCollectField(c, u, text, "adding_movie_name", "name",
                    "adding_movie_thumbnail", "enter_movie_thumbnail")

IndexAddingMovieThumbnail(c, u, text) ==
  IndexCollectField(c, u, text, "adding_movie_thumbnail", "thumbnail",
                    "adding_movie_streaming_url", "enter_streaming_url")

IndexAddingMovieStreamingUrl(c, u, text, f) ==
  LET data == IndexAssign(Data(c), "streamingUrl", text)
      doc == IndexMovieDoc(data, u)
      saved == f = 0 /\ MovieValid(doc)
  IN /\ IndexInFlow(c, text, "adding_movie_streaming_url")
     /\ f \in 0..1
     /\ saved => nextId <= MaxIds
     /\ movies' = IF saved THEN MapSet(movies, NewId, doc) ELSE movies
     /\ nextId' = IF saved THEN nextId + 1 ELSE nextId
     /\ UNCHANGED <<series, episodes>> /\ NoButtons
     /\ userStates' = MapDelete(userStates, c)
     /\ tempData' = MapSet(tempData, c, data)
     /\ Log(c, u, "adding_movie_streaming_url", text, <<>>, f,
            IF saved THEN <<"movie_added">> ELSE <<"error_adding_movie">>,
            0, IF saved THEN NewId ELSE "")

\* default: "Ignore messages that don't match any state"; the draft, or {},
\* is still set after the switch
IndexFlowDefault(c, u, text) ==
  /\ text \notin IndexMenuTexts
  /\ UserState(c) \notin IndexFlowStates
  /\ UNCHANGED userStates
  /\ tempData' = MapSet(tempData, c, Data(c))
  /\ StoreUnchanged
  /\ NoButtons
  /\ Log(c, u, "default", text, <<>>, 0, <<>>, 0, "")

IndexTexts == {<<" ", "a">>, Undefined}

NextIndex ==
  \E u \in Users :
    \/ IndexOnStart(1, u, StartCommand)
    \/ IndexOnAddMovie(1, u, AddMovieLabel)
    \/ \E text \in IndexTexts :
         \/ IndexAddingMovieName(1, u, text)
         \/ IndexAddingMovieThumbnail(1, u, text)
         \/ \E f \in StoreFailures : IndexAddingMovieStreamingUrl(1, u, text, f)
         \/ IndexFlowDefault(1, u, text)

SpecIndex == InitFresh /\ [][NextIndex]_vars

-----------------------------------------------------------------------------
(* Properties *)

\* a text with a character that trim() keeps
NonBlank(text) == text # Undefined /\ \E i \in 1..Len(text) : ~IsSpace(text[i])

\* the update handled by the step is a text message of chat c that is no menu label
TextStep(c) ==
  /\ last'.chat = c
  /\ last'.data = <<>>
  /\ last'.text \notin MenuTexts \cup {Undefined}

CatalogUnchanged == UNCHANGED <<movies, series, episodes>>

\* C1: 'Add Movie' followed by three text messages n, t, u of the same chat,
\* the store accepting the write, creates exactly one Movie, with name trim(n),
\* thumbnail trim(t), streamingUrl trim(u) and addedBy the sender of u; the
\* messages before u create nothing and no other record is created, changed
\* or removed.
C1_MovieFlowCreatesOneMovie ==
  [][\A c \in Chats :
       LET tr == transcript'[c]
       IN (/\ last'.chat = c
           /\ tr # <<>>
           /\ tr[1] = AddMovieLabel
           /\ \A i \in 2..Len(tr) : NonBlank(tr[i]))
          => /\ Len(tr) < 4 => CatalogUnchanged
             /\ (Len(tr) = 4 /\ last'.f = 0)
                => /\ UNCHANGED <<series, episodes>>
                   /\ \A m \in DOMAIN movies : Has(movies', m) /\ movies'[m] = movies[m]
                   /\ \E id \in DOMAIN movies' :
                        /\ DOMAIN movies' = (DOMAIN movies) \cup {id}
                        /\ ~Has(movies, id)
                        /\ movies'[id] = [name |-> Trim(tr[2]), thumbnail |-> Trim(tr[3]),
                                          streamingUrl |-> Trim(tr[4]),
                                          addedBy |-> last'.user, type |-> "movie"]]_vars

\* a movie flow whose texts needed trimming, whose name and thumbnail differ,
\* and whose third message came from another sender than the first texts
C1_Witness ==
  /\ last.branch = "adding_movie_streaming_url"
  /\ last.created # ""
  /\ last.user = 102
  /\ transcript[last.chat] = <<AddMovieLabel, <<" ", "a", " ">>, <<"b">>, <<" ", "a", " ">>>>
  /\ movies[last.created].name = <<"a">>
  /\ movies[last.created].thumbnail = <<"b">>
  /\ movies[last.created].addedBy = 102

\* C2: after 'Add Series', a name and a thumbnail have created the Series, the
\* session is in adding_season_number and its draft carries the _id of the
\* new series.
C2_SeriesFlowDraftIdentifiesSeries ==
  \A c \in Chats :
    (/\ last.chat = c
     /\ last.branch = "adding_series_thumbnail"
     /\ last.created # ""
     /\ Len(transcript[c]) = 3
     /\ transcript[c][1] = AddSeriesLabel)
    => /\ Has(series, last.created)
       /\ UserState(c) = "adding_season_number"
       /\ Has(tempData, c)
       /\ Has(tempData[c], "seriesId")
       /\ tempData[c].seriesId = last.created

\* C3: no two Episode documents have the same (seriesId, seasonNumber, episodeNumber)
C3_EpisodeKeyUnique ==
  \A e1, e2 \in DOMAIN episodes :
    (/\ episodes[e1].seriesId = episodes[e2].seriesId
     /\ episodes[e1].seasonNumber = episodes[e2].seasonNumber
     /\ episodes[e1].episodeNumber = episodes[e2].episodeNumber)
    => e1 = e2

\* a chat's episode passed the duplicate check and was then refused by the
\* store, the other chat having saved the same triple in between
C3_Witness ==
  /\ last.branch = "adding_episode_url"
  /\ last.f = 0
  /\ last.sent = <<"error_saving_episode">>
  /\ Has(tempData, last.chat)
  /\ \E e \in DOMAIN episodes :
       /\ episodes[e].addedBy # last.user
       /\ e \notin DOMAIN SeedEpisodes
       /\ episodes[e].seriesId = tempData[last.chat].seriesId
       /\ episodes[e].seasonNumber = tempData[last.chat].seasonNumber
       /\ episodes[e].episodeNumber = tempData[last.chat].episodeNumber

\* C4: in adding_season_number with a draft for series S, a season number for
\* which S has an Episode is rejected: one warning, the catalog unchanged, the
\* state kept and the draft left as it was (the lookup itself succeeding).
C4_ExistingSeasonRejected ==
  [][\A c \in Chats :
       LET n == ParseInt(Trim(last'.text))
       IN (/\ TextStep(c)
           /\ last'.f = 0
           /\ UserState(c) = "adding_season_number"
           /\ Has(tempData, c)
           /\ Has(tempData[c], "seriesId")
           /\ ~IsNaN(n)
           /\ \E e \in DOMAIN episodes :
                /\ episodes[e].seriesId = tempData[c].seriesId
                /\ episodes[e].seasonNumber = n)
          => /\ last'.sent = <<"warn_season_exists">>
             /\ CatalogUnchanged
             /\ UserState(c)' = "adding_season_number"
             /\ UNCHANGED nextId
             /\ tempData' = tempData]_vars

C4_Witness ==
  /\ last.sent = <<"warn_season_exists">>
  /\ last.text = <<"1">>
  /\ UserState(last.chat) = "adding_season_number"
  /\ Has(tempData, last.chat)
  /\ Has(tempData[last.chat], "seriesId")
  /\ tempData[last.chat].seriesId = "s0"

\* C5: in adding_episode_number for series S and season k, an episode number e
\* with an Episode (S, k, e) in the store is rejected: one warning, the store
\* unchanged, the state still adding_episode_number (the lookup succeeding).
C5_ExistingEpisodeRejected ==
  [][\A c \in Chats :
       LET n == ParseInt(Trim(last'.text))
       IN (/\ TextStep(c)
           /\ last'.f = 0
           /\ UserState(c) = "adding_episode_number"
           /\ Has(tempData, c)
           /\ Has(tempData[c], "seriesId")
           /\ Has(tempData[c], "seasonNumber")
           /\ \E e \in DOMAIN episodes :
                /\ episodes[e].seriesId = tempData[c].seriesId
                /\ episodes[e].seasonNumber = tempData[c].seasonNumber
                /\ episodes[e].episodeNumber = n)
          => /\ last'.sent = <<"warn_episode_exists">>
             /\ CatalogUnchanged
             /\ UNCHANGED nextId
             /\ UserState(c)' = "adding_episode_number"
             /\ tempData' = tempData]_vars

C5_Witness ==
  /\ last.sent = <<"warn_episode_exists">>
  /\ UserState(last.chat) = "adding_episode_number"
  /\ Has(tempData, last.chat)
  /\ Has(tempData[last.chat], "seriesId")
  /\ Has(tempData[last.chat], "seasonNumber")

\* the step rejects the text of chat c: one warning, nothing else changes
NumberRejected(c) ==
  /\ last'.sent = (IF UserState(c) = "adding_season_number"
                   THEN <<"warn_valid_season_number">>
                   ELSE <<"warn_valid_episode_number">>)
  /\ UNCHANGED <<userStates, tempData, movies, series, episodes, nextId>>

\* the text, trimmed, is '0' or a negative integer
ZeroOrNegative(text) ==
  LET t == Trim(text)
  IN \/ t = <<"0">>
     \/ /\ Len(t) > 1
        /\ t[1] = "-"
        /\ \A i \in 2..Len(t) : IsDigit(t[i])

\* the text, trimmed, does not begin with a digit
NoLeadingDigit(text) ==
  LET t == Trim(text) IN t = <<>> \/ ~IsDigit(t[1])

\* the text, trimmed, begins with a '+' and then a digit
PlusDigit(text) ==
  LET t == Trim(text) IN Len(t) > 1 /\ t[1] = "+" /\ IsDigit(t[2])

AtNumberState(c) == UserState(c) \in {"adding_season_number", "adding_episode_number"}

\* C6 as stated: at adding_season_number and adding_episode_number a text that
\* is '0', a negative integer or has no leading digit is rejected with one
\* warning, and state, draft and store are unchanged.
C6_AsStated ==
  [][\A c \in Chats :
       (/\ TextStep(c)
        /\ AtNumberState(c)
        /\ ZeroOrNegative(last'.text) \/ NoLeadingDigit(last'.text))
       => NumberRejected(c)]_vars

\* C6, amended: the same of a text that is '0', a negative integer, or begins
\* with neither a digit nor a '+' followed by a digit.
C6_InvalidNumberRejected ==
  [][\A c \in Chats :
       (/\ TextStep(c)
        /\ AtNumberState(c)
        /\ \/ ZeroOrNegative(last'.text)
           \/ NoLeadingDigit(last'.text) /\ ~PlusDigit(last'.text))
       => NumberRejected(c)]_vars

\* '0' rejected at the season prompt of the create-new-series flow
C6_Witness ==
  /\ last.sent = <<"warn_valid_season_number">>
  /\ Len(transcript[last.chat]) = 4
  /\ transcript[last.chat][1] = AddSeriesLabel
  /\ transcript[last.chat][4] = <<"0">>
  /\ UserState(last.chat) = "adding_season_number"

\* the update handled last was a commit that the store rejected
CreateBranches ==
  {"adding_movie_streaming_url", "adding_series_thumbnail", "adding_episode_url"}

EditBranches ==
  {"editing_movie_name", "editing_movie_thumbnail", "editing_movie_streaming_url",
   "editing_series_name", "editing_series_thumbnail",
   "editing_episode_title", "editing_episode_streaming_url"}

CommitRejected ==
  \/ last.branch \in CreateBranches /\ last.text # Undefined /\ last.created = ""
  \/ last.branch \in EditBranches /\ last.text # Undefined /\ last.f = 1

\* C7: after a commit that the store rejected, one failure message has been
\* sent and the chat has no entry in userStates and none in tempData.
C7_RejectedCommitClearsSession ==
  CommitRejected
  => /\ Len(last.sent) = 1
     /\ ~Has(userStates, last.chat)
     /\ ~Has(tempData, last.chat)

\* C8: after the message received in adding_movie_streaming_url has been
\* handled, the chat has no entry in userStates and none in tempData.
C8_NoSessionAfterMovieCommit ==
  (last.branch = "adding_movie_streaming_url" /\ last.text # Undefined)
  => /\ ~Has(userStates, last.chat)
     /\ ~Has(tempData, last.chat)

\* C9: delete_series_<id> of an existing series, the store accepting the
\* writes, removes that Series and every Episode with that seriesId and
\* nothing else: the Movies, the other Series and the other Episodes stay as
\* they were.
C9_DeleteSeriesCascades ==
  [][LET id == extractId(last'.data, P_delete_series)
     IN (/\ last'.data # <<>>
         /\ Branch(last'.data) = "delete_series_"
         /\ last'.f = 0
         /\ Has(series, id))
        => /\ ~Has(series', id)
           /\ \A e \in DOMAIN episodes' : episodes'[e].seriesId # id
           /\ movies' = movies
           /\ DOMAIN series' = (DOMAIN series) \ {id}
           /\ \A x \in DOMAIN series' : series'[x] = series[x]
           /\ DOMAIN episodes' = {e \in DOMAIN episodes : episodes[e].seriesId # id}
           /\ \A e \in DOMAIN episodes' : episodes'[e] = episodes[e]]_vars

\* s0 and its episode gone, s1 and its episode still there
C9_Witness ==
  /\ last.data = P_delete_series \o <<"s0">>
  /\ last.sent = <<"series_deleted">>
  /\ ~Has(series, "s0")
  /\ ~Has(episodes, "e0")
  /\ Has(series, "s1")
  /\ Has(episodes, "e1")
  /\ Has(movies, "m0")

\* C10: the update before this one having committed an Episode of series S
\* and season k for the chat, add_another_episode leaves the chat in
\* adding_episode_number with a draft for S and k, add_new_season_to_series_S
\* in adding_season_number with a draft for S, and finish_series_flow without
\* state and draft.
C10_AfterEpisodeCommit ==
  [][\A c \in Chats :
       (/\ last.chat = c
        /\ last.branch = "adding_episode_url"
        /\ last.created # ""
        /\ Has(episodes, last.created)
        /\ last'.chat = c
        /\ last'.data # <<>>)
       => LET S == episodes[last.created].seriesId
              k == episodes[last.created].seasonNumber
          IN /\ last'.data = P_add_another_episode
                => /\ UserState(c)' = "adding_episode_number"
                   /\ Has(tempData', c)
                   /\ Has(tempData'[c], "seriesId") /\ tempData'[c].seriesId = S
                   /\ Has(tempData'[c], "seasonNumber") /\ tempData'[c].seasonNumber = k
             /\ last'.data = P_add_new_season_to_series \o <<S>>
                => /\ UserState(c)' = "adding_season_number"
                   /\ Has(tempData', c)
                   /\ Has(tempData'[c], "seriesId") /\ tempData'[c].seriesId = S
             /\ last'.data = P_finish_series_flow
                => /\ ~Has(userStates', c)
                   /\ ~Has(tempData', c)]_vars

\* add_another_episode pressed on a draft that is an Episode created in this run
C10_Witness ==
  /\ last.data = P_add_another_episode
  /\ UserState(last.chat) = "adding_episode_number"
  /\ Has(tempData, last.chat)
  /\ \E e \in (DOMAIN episodes) \ (DOMAIN SeedEpisodes) :
       episodes[e] = EpisodeDoc(tempData[last.chat], last.user)

\* the document path that an editing_* state updates
EditPath(state) ==
  IF state \in {"editing_movie_name", "editing_series_name"} THEN "name"
  ELSE IF state \in {"editing_movie_thumbnail", "editing_series_thumbnail"} THEN "thumbnail"
  ELSE IF state = "editing_episode_title" THEN "title"
  ELSE "streamingUrl"

\* coll2 is coll with path of document id set to v, and nothing else changed
OneFieldSet(coll, coll2, id, path, v) ==
  /\ DOMAIN coll2 = DOMAIN coll
  /\ \A x \in (DOMAIN coll) \ {id} : coll2[x] = coll[x]
  /\ DOMAIN coll2[id] = (DOMAIN coll[id]) \cup {path}
  /\ coll2[id][path] = v
  /\ \A k \in (DOMAIN coll[id]) \ {path} : coll2[id][k] = coll[id][k]

\* the update before this one was the press of an edit_field_* button that
\* asked chat c for the new value, the draft being the selection of `kind`
\* made with idKey
FieldChosen(c, branch, kind, idKey, coll) ==
  /\ last.chat = c
  /\ last.branch = branch
  /\ last.sent = <<"enter_new_value">>
  /\ Has(tempData, c)
  /\ tempData[c].type = kind
  /\ Has(tempData[c], idKey)
  /\ Has(coll, tempData[c][idKey])

\* C11: a record selected with edit_movie_, edit_series_ or edit_episode_field_
\* and a field chosen with the matching edit_field_ button, the next text v
\* (the store accepting the update) sets that field of that record to trim(v),
\* changes no other field and no other record, and leaves no state entry.
C11_EditUpdatesOneField ==
  [][\A c \in Chats :
       (TextStep(c) /\ last'.f = 0)
       => LET path == EditPath(UserState(c))
              v == Trim(last'.text)
          IN /\ FieldChosen(c, "edit_field_movie_", "movie", "movieId", movies)
                => /\ OneFieldSet(movies, movies', tempData[c].movieId, path, v)
                   /\ UNCHANGED <<series, episodes>>
                   /\ ~Has(userStates', c)
             /\ FieldChosen(c, "edit_field_series_", "series", "seriesId", series)
                => /\ OneFieldSet(series, series', tempData[c].seriesId, path, v)
                   /\ UNCHANGED <<movies, episodes>>
                   /\ ~Has(userStates', c)
             /\ FieldChosen(c, "edit_field_episode_", "episode_edit", "episodeId", episodes)
                => /\ OneFieldSet(episodes, episodes', tempData[c].episodeId, path, v)
                   /\ UNCHANGED <<movies, series>>
                   /\ ~Has(userStates', c)]_vars

\* the streaming URL of m0 replaced by the trimmed text, its name as before
C11_Witness ==
  /\ last.branch = "editing_movie_streaming_url"
  /\ last.sent = <<"updated">>
  /\ last.text = <<" ", "a", " ">>
  /\ movies["m0"].streamingUrl = <<"a">>
  /\ movies["m0"].name = SeedMovies["m0"].name
  /\ ~Has(userStates, last.chat)

\* C12: a text that is neither /start nor a menu label, the chat having no
\* state entry, is answered with one help message, leaves the chat without
\* state entry and with the draft entry it had, and changes no catalog record.
C12_UnrecognizedTextGetsHelp ==
  [][\A c \in Chats :
       (TextStep(c) /\ ~Has(userStates, c))
       => /\ last'.sent = <<"did_not_understand">>
          /\ ~Has(userStates', c)
          /\ tempData' = tempData
          /\ CatalogUnchanged]_vars

\* help sent to a chat that still holds the draft of a finished flow
C12_Witness ==
  /\ last.branch = "default"
  /\ last.text = <<"b">>
  /\ last.sent = <<"did_not_understand">>
  /\ ~Has(userStates, last.chat)
  /\ Has(tempData, last.chat)

\* C13: in src/index.js, a text that is neither /start nor a menu label,
\* the chat having no state entry, is answered with an outbound message.
C13_IndexUnrecognizedTextAnswered ==
  [][\A c \in Chats :
       (/\ last'.chat = c
        /\ last'.data = <<>>
        /\ last'.text \notin IndexMenuTexts \cup {Undefined}
        /\ ~Has(userStates, c))
       => last'.sent # <<>>]_vars

\* The session of a chat: its state and its draft
Session(c) == <<Has(userStates, c), UserState(c), Has(tempData, c), Data(c)>>

\* C14: every handled text message, and every button callback that changes
\* the session (state or draft) of its chat, sends exactly one chat message
\* (sendMessage) -- never zero, never two.
C14_OneMessagePerUpdate ==
  [][\A c \in Chats :
       (/\ last'.chat = c
        /\ last' # last
        /\ \/ last'.data = <<>> /\ last'.text # Undefined
           \/ last'.data # <<>> /\ Session(c)' # Session(c))
       => Len(last'.sent) = 1]_vars

C15_PlainIdsSelected ==
  [][\A c \in Chats, id \in SeasonIds \ {SeparatorId}, n \in 1..MaxNumber :
       (/\ last'.chat = c
        /\ last'.branch = "select_season_"
        /\ last'.f = 0
        /\ last'.data = P_select_season \o split(id) \o <<ToString(n)>>
        /\ last' # last)
       => /\ Has(tempData', c)
          /\ Data(c)'.seriesId = id
          /\ Data(c)'.seasonNumber = n]_vars

\* C16: a callback whose payload matches no known action, or whose handling
\* fails with an error of the store, is answered with an acknowledgement and
\* leaves the state and the draft of its chat exactly as they were.
C16_FailedCallbackLeavesSession ==
  [][\A c \in Chats :
       (/\ last'.chat = c
        /\ last' # last
        /\ last'.data # <<>>
        /\ Branch(last'.data) = "none" \/ last'.f # 0)
       => /\ last'.answered = 1
          /\ Session(c)' = Session(c)]_vars

\* the unroutable payloads alone
C16_UnknownPayloadLeavesSession ==
  [][\A c \in Chats :
       (/\ last'.chat = c
        /\ last' # last
        /\ last'.data # <<>>
        /\ Branch(last'.data) = "none")
       => /\ last'.answered = 1
          /\ Session(c)' = Session(c)]_vars

\* C17: updates of one chat are not serialized. While a handler of chat c is
\* suspended at the store write and the state of c is still
\* adding_movie_streaming_url, a further text of c can be dispatched into the
\* same case; and every movie a handler reports as created is in the store.
C17_NotSerialized ==
  /\ \A c \in Chats :
       (/\ UserState(c) = "adding_movie_streaming_url"
        /\ \E i \in Suspended : pending[i].chat = c
        /\ Len(pending) < MaxPending)
       => ENABLED StreamingUrlDispatch(c, 101, <<"a">>)
  /\ \A i \in DOMAIN pending : pending[i].created # "" => Has(movies, pending[i].created)

\* two handlers of one chat, both dispatched in adding_movie_streaming_url
\* before either finished, have each created a Movie
C17_Witness ==
  /\ Len(pending) = 2
  /\ pending[1].chat = pending[2].chat
  /\ pending[1].state = "adding_movie_streaming_url"
  /\ pending[2].state = "adding_movie_streaming_url"
  /\ pending[1].created # "" /\ pending[2].created # ""
  /\ pending[1].created # pending[2].created
  /\ Has(movies, pending[1].created) /\ Has(movies, pending[2].created)

\* C18: when the Movie is created and the send of the confirmation then
\* fails, the user is not sent a message reporting that adding the movie
\* failed, and the created Movie stays in the store.
C18_SendFailureNotReportedAsFailedCommit ==
  [][(/\ last' # last
      /\ last'.branch = "adding_movie_streaming_url"
      /\ last'.created # ""
      /\ last'.sent # <<"movie_added">>)
     => /\ \A i \in DOMAIN last'.sent : last'.sent[i] # "error_adding_movie"
        /\ Has(movies', last'.created)]_vars

\* C19: pressing cancel, whatever the session of the chat, removes its state
\* and its draft, sends the one message 'Operation canceled.' and changes no
\* Movie, Series or Episode.
C19_CancelRemovesSession ==
  [][\A c \in Chats :
       (last'.chat = c /\ last'.branch = "cancel" /\ last' # last)
       => /\ ~Has(userStates', c)
          /\ ~Has(tempData', c)
          /\ last'.sent = <<"operation_canceled">>
          /\ CatalogUnchanged]_vars

\* cancel was the update handled last: its one message was sent and the chat
\* has neither state nor draft
C19_Witness ==
  /\ last.branch = "cancel"
  /\ last.sent = <<"operation_canceled">>
  /\ ~Has(userStates, last.chat)
  /\ ~Has(tempData, last.chat)

\* C20: no request to /health, /api, /api/media, /api/series/:id or
\* /api/stats creates, updates or deletes a Movie, Series or Episode or
\* changes a chat session: a step that sends an HTTP response leaves the
\* catalog and the sessions as they are, and a step that changes them is the
\* handling of a chat update.
C20_HttpReadsOnly ==
  [][/\ response' # response
        => UNCHANGED <<movies, series, episodes, userStates, tempData>>
     /\ ~UNCHANGED <<movies, series, episodes, userStates, tempData>>
        => last' # last \/ pending' # pending]_vars

\* /api/stats has been answered while the chat has an open session, after
\* the chat deleted movie m0
C20_Witness ==
  /\ response.path = "/api/stats"
  /\ response.status = 200
  /\ response.counts[1] = 0
  /\ ~Has(movies, "m0")
  /\ Has(userStates, 1)

ReadPaths == {"/api/media", "/api/series/:id", "/api/stats"}

\* C21: /api/series/:id answers 404 with an error field when the lookup
\* finds no series of that id; each read endpoint answers 500 with an error
\* field when a query of the store fails; no such answer has a 2xx status.
C21_ErrorsAreNot2xx ==
  [][response' # response =>
       /\ (/\ response'.path = "/api/series/:id"
           /\ response'.f = 0
           /\ ~Has(series, response'.id))
          => response'.status = 404 /\ response'.error # ""
       /\ (response'.path \in ReadPaths /\ response'.f # 0)
          => response'.status = 500 /\ response'.error # ""
       /\ response'.status \in 200..299
          => /\ response'.f = 0
             /\ response'.error = ""
             /\ response'.path = "/api/series/:id" => Has(series, response'.id)]_vars

\* series s1 has been deleted by the chat and then asked for
C21_Witness ==
  /\ response.path = "/api/series/:id"
  /\ response.id = "s1"
  /\ ~Has(series, "s1")
  /\ response.status = 404
  /\ response.error = "Series not found"

\* C22: two successive answers of /api/series/:id for the same id, with the
\* catalog at the second as it was at the first and no query failing, have
\* the same status and the same body (series fields and ordered episodes).
C22_SeriesFetchIdempotent ==
  [][(/\ response.path = "/api/series/:id"
      /\ response'.path = "/api/series/:id"
      /\ response'.id = response.id
      /\ response.f = 0 /\ response'.f = 0
      /\ response.seen = <<movies, series, episodes>>)
     => /\ response'.status = response.status
        /\ response'.doc = response.doc
        /\ response'.list = response.list]_vars

\* s0 has been served with two episodes, the second one added by a chat
C22_Witness ==
  /\ response.path = "/api/series/:id"
  /\ response.id = "s0"
  /\ response.status = 200
  /\ Len(response.list) = 2
  /\ response.list[1] = "e0"
  /\ response.seen = <<movies, series, episodes>>

RequiredAbsent == boot.env.BOT_TOKEN = Unset \/ boot.env.MONGODB_URI = Unset

\* C23: in both servers, when BOT_TOKEN or MONGODB_URI is absent from the
\* environment the process never creates the bot, connects to the store or
\* listens, and its start-up ends in an exit with a non-zero status.
C23_MissingConfigIsFatal ==
  RequiredAbsent =>
    /\ ~boot.bot /\ ~boot.connect /\ ~boot.listen
    /\ boot.pc \notin {"create_bot", "connect", "listen", "ready"}
    /\ boot.exited => boot.code # 0

\* the same for the normalized server alone
C23_NormalizedMissingConfigIsFatal ==
  (boot.server = "part_002" /\ RequiredAbsent) =>
    /\ ~boot.bot /\ ~boot.connect /\ ~boot.listen
    /\ boot.pc \notin {"create_bot", "connect", "listen", "ready"}
    /\ boot.exited => boot.code # 0

\* the fields a record requires of the draft, and the field its commit case
\* stores from the text
RequiredOfDraft(branch) ==
  IF branch = "adding_movie_streaming_url" THEN {"name", "thumbnail", "streamingUrl"}
  ELSE IF branch = "adding_series_thumbnail" THEN {"name", "thumbnail"}
  ELSE {"seriesId", "seasonNumber", "episodeNumber", "title", "streamingUrl"}

StoredByCommit(branch) ==
  IF branch = "adding_series_thumbnail" THEN "thumbnail" ELSE "streamingUrl"

\* C24: a create is attempted (a text is handled in one of the three commit
\* cases) only when the draft, with the field of that text stored in it,
\* holds every field the record requires.
C24_CreateOnlyWithCompleteDraft ==
  [][\A c \in Chats :
       (/\ last'.chat = c
        /\ last' # last
        /\ last'.data = <<>>
        /\ last'.text # Undefined
        /\ last'.branch \in CreateBranches)
       => RequiredOfDraft(last'.branch)
            \subseteq (DOMAIN Data(c)) \cup {StoredByCommit(last'.branch)}]_vars

\* the text, trimmed, is made of decimal digits only and is not zero
WholeDecimalPositive(text) ==
  LET t == Trim(text)
  IN /\ t # <<>>
     /\ \A i \in DOMAIN t : IsDigit(t[i])
     /\ \E i \in DOMAIN t : t[i] # "0"

\* C25: at adding_season_number and adding_episode_number a text whose
\* trimmed whole is not the decimal representation of a positive integer
\* ('2a', '1.5') is rejected with the warning and state, draft and store
\* are unchanged.
C25_WholeInputMustBeNumber ==
  [][\A c \in Chats :
       (/\ TextStep(c)
        /\ AtNumberState(c)
        /\ ~WholeDecimalPositive(last'.text))
       => NumberRejected(c)]_vars

-----------------------------------------------------------------------------
(* The server that keeps seasons and episodes inside the Series record
   (src/unnamed/part_000): the add-series flow and its buttons *)

MaxEpisodes == 2

P_add_to_series == <<"add", "to", "series">>
P_create_new_series == <<"create", "new", "series">>
P_add_new_season == <<"add", "new", "season">>
P_finish_series == <<"finish", "series">>

\* a season read from the store is a subdocument and carries its own _id;
\* one the flow builds ({ seasonNumber, episodes: [] }) is a plain object
IsSubdoc(season) == Has(season, "_id")

\* the store casts the seasons it is given: a plain season gets an _id
CastSeasons(seasons) ==
  [i \in DOMAIN seasons |->
     IF IsSubdoc(seasons[i]) THEN seasons[i] ELSE MapSet(seasons[i], "_id", "sub")]

\* data.seasons.findIndex(s => s.seasonNumber === n), 0 standing for -1
SeasonIndex(seasons, n) ==
  IF \E i \in DOMAIN seasons : seasons[i].seasonNumber = n
  THEN CHOOSE i \in DOMAIN seasons :
         /\ seasons[i].seasonNumber = n
         /\ \A j \in DOMAIN seasons : seasons[j].seasonNumber = n => i <= j
  ELSE 0

\* the series schema: name and thumbnail are required; every episode built by
\* the flow holds its number, title and streaming URL
EmbSeriesDoc(userData, userId) ==
  [k \in ((DOMAIN userData) \cap {"name", "thumbnail", "seasons"}) \cup {"addedBy"} |->
     IF k = "addedBy" THEN userId
     ELSE IF k = "seasons" THEN CastSeasons(userData.seasons)
     ELSE userData[k]]

\* the catch of handleConversationFlow
EmbFlowCatch(c, u, branch, text) ==
  /\ ClearSession(c)
  /\ StoreUnchanged
  /\ NoButtons
  /\ Log(c, u, branch, text, <<>>, 0, <<"error_occurred">>, 0, "")

\* text === 'Add Series': the series of the store are offered as buttons, or
\* the flow starts at once when there is none
EmbOnAddSeries(c, u, text) ==
  /\ text = AddSeriesLabel
  /\ StoreUnchanged
  /\ IF DOMAIN series # {}
     THEN /\ UNCHANGED <<userStates, tempData>>
          /\ SendButtons(c, {P_add_to_series \o <<x>> : x \in DOMAIN series}
                            \cup {P_create_new_series})
          /\ Log(c, u, "Add Series", text, <<>>, 0, <<"choose_series">>, 0, "")
     ELSE /\ userStates' = MapSet(userStates, c, "adding_series_name")
          /\ tempData' = MapSet(tempData, c, [type |-> "series"])
          /\ NoButtons
          /\ Log(c, u, "Add Series", text, <<>>, 0, <<"enter_series_name">>, 0, "")

EmbAddingSeriesName(c, u, text) ==
  /\ text \notin MenuTexts
  /\ UserState(c) = "adding_series_name"
  /\ userStates' = MapSet(userStates, c, "adding_series_thumbnail")
  /\ tempData' = MapSet(tempData, c, MapSet(Data(c), "name", Trim(text)))
  /\ StoreUnchanged
  /\ NoButtons
  /\ Log(c, u, "adding_series_name", text, <<>>, 0, <<"enter_series_thumbnail">>, 0, "")

EmbAddingSeriesThumbnail(c, u, text) ==
  /\ text \notin MenuTexts
  /\ UserState(c) = "adding_series_thumbnail"
  /\ userStates' = MapSet(userStates, c, "adding_season_number")
  /\ tempData' = MapSet(tempData, c,
                        MapSet(MapSet(Data(c), "thumbnail", Trim(text)), "seasons", <<>>))
  /\ StoreUnchanged
  /\ NoButtons
  /\ Log(c, u, "adding_series_thumbnail", text, <<>>, 0, <<"enter_season_number">>, 0, "")

\* case 'adding_season_number_existing': case 'adding_season_number':
EmbAddingSeasonNumber(c, u, text) ==
  LET data == Data(c)
      seasonNumber == ParseInt(Trim(text))
      idx == SeasonIndex(data.seasons, seasonNumber)
      currentSeason == IF idx > 0 THEN data.seasons[idx]
                       ELSE [seasonNumber |-> seasonNumber, episodes |-> <<>>]
  IN
  /\ text \notin MenuTexts
  /\ UserState(c) \in {"adding_season_number_existing", "adding_season_number"}
  /\ IF IsNaN(seasonNumber) \/ seasonNumber <= 0
     THEN /\ UNCHANGED <<userStates, tempData>>
          /\ StoreUnchanged
          /\ NoButtons
          /\ Log(c, u, UserState(c), text, <<>>, 0, <<"valid_season_number">>, 0, "")
     ELSE IF ~Has(data, "seasons")
     THEN EmbFlowCatch(c, u, UserState(c), text)
     ELSE /\ userStates' = MapSet(userStates, c, "adding_episode_number")
          /\ tempData' = MapSet(tempData, c, MapSet(data, "currentSeason", currentSeason))
          /\ StoreUnchanged
          /\ NoButtons
          /\ Log(c, u, UserState(c), text, <<>>, 0, <<"enter_episode_number">>, 0, "")

EmbAddingEpisodeNumber(c, u, text) ==
  LET data == Data(c)
      episodeNumber == ParseInt(Trim(text))
  IN
  /\ text \notin MenuTexts
  /\ UserState(c) = "adding_episode_number"
  /\ IF IsNaN(episodeNumber) \/ episodeNumber <= 0
     THEN /\ UNCHANGED <<userStates, tempData>>
          /\ StoreUnchanged
          /\ NoButtons
          /\ Log(c, u, "adding_episode_number", text, <<>>, 0, <<"valid_episode_number">>, 0, "")
     ELSE IF ~Has(data, "currentSeason")
     THEN EmbFlowCatch(c, u, "adding_episode_number", text)
     ELSE IF \E i \in DOMAIN data.currentSeason.episodes :
               data.currentSeason.episodes[i].episodeNumber = episodeNumber
     THEN /\ UNCHANGED <<userStates, tempData>>
          /\ StoreUnchanged
          /\ NoButtons
          /\ Log(c, u, "adding_episode_number", text, <<>>, 0, <<"episode_exists">>, 0, "")
     ELSE /\ userStates' = MapSet(userStates, c, "adding_episode_title")
          /\ tempData' = MapSet(tempData, c,
                                MapSet(data, "currentEpisode", [episodeNumber |-> episodeNumber]))
          /\ StoreUnchanged
          /\ NoButtons
          /\ Log(c, u, "adding_episode_number", text, <<>>, 0, <<"enter_episode_title">>, 0, "")

EmbAddingEpisodeTitle(c, u, text) ==
  LET data == Data(c)
  IN
  /\ text \notin MenuTexts
  /\ UserState(c) = "adding_episode_title"
  /\ IF ~Has(data, "currentEpisode")
     THEN EmbFlowCatch(c, u, "adding_episode_title", text)
     ELSE /\ userStates' = MapSet(userStates, c, "adding_episode_url")
          /\ tempData' = MapSet(tempData, c,
               MapSet(data, "currentEpisode", MapSet(data.currentEpisode, "title", Trim(text))))
          /\ StoreUnchanged
          /\ NoButtons
          /\ Log(c, u, "adding_episode_title", text, <<>>, 0, <<"enter_episode_url">>, 0, "")

\* case 'adding_episode_url': the URL is stored in currentEpisode, which is
\* pushed into currentSeason.episodes, and the season replaces or joins
\* data.seasons; the state is left as it is.  A plain episodes array holds the
\* pushed object itself, so an entry pushed before IS currentEpisode and shows
\* the new URL; the array of a subdocument holds a cast copy of each push.
EmbAddingEpisodeUrl(c, u, text) ==
  LET data == Data(c)
      currentEpisode == MapSet(data.currentEpisode, "streamingUrl", Trim(text))
      season == data.currentSeason
      shared == [i \in DOMAIN season.episodes |->
                   IF /\ ~IsSubdoc(season)
                      /\ season.episodes[i].episodeNumber = currentEpisode.episodeNumber
                   THEN currentEpisode ELSE season.episodes[i]]
      currentSeason == MapSet(season, "episodes", Append(shared, currentEpisode))
      idx == SeasonIndex(data.seasons, currentSeason.seasonNumber)
      seasons == IF idx > 0 THEN [data.seasons EXCEPT ![idx] = currentSeason]
                 ELSE Append(data.seasons, currentSeason)
  IN
  /\ text \notin MenuTexts
  /\ UserState(c) = "adding_episode_url"
  /\ IF ~Has(data, "currentEpisode") \/ ~Has(data, "currentSeason") \/ ~Has(data, "seasons")
     THEN EmbFlowCatch(c, u, "adding_episode_url", text)
     ELSE /\ Len(season.episodes) < MaxEpisodes
          /\ UNCHANGED userStates
          /\ tempData' = MapSet(tempData, c,
               MapSet(MapSet(MapSet(data, "currentEpisode", currentEpisode),
                             "currentSeason", currentSeason), "seasons", seasons))
          /\ StoreUnchanged
          /\ SendButtons(c, {P_add_another_episode, P_add_new_season, P_finish_series})
          /\ Log(c, u, "adding_episode_url", text, <<>>, 0, <<"episode_added">>, 0, "")

\* default: of handleConversationFlow
EmbFlowDefault(c, u, text) ==
  /\ text \notin MenuTexts
  /\ UserState(c) \notin {"adding_series_name", "adding_series_thumbnail",
                          "adding_season_number_existing", "adding_season_number",
                          "adding_episode_number", "adding_episode_title",
                          "adding_episode_url", "editing_series"}
  /\ userStates' = MapDelete(userStates, c)
  /\ tempData' = WriteBack(MapDelete(tempData, c), c, Data(c))
  /\ StoreUnchanged
  /\ NoButtons
  /\ Log(c, u, "default", text, <<>>, 0, <<"did_not_understand">>, 0, "")

\* the if / else-if chain of bot.on('callback_query') of this server: the
\* first test that holds
EmbBranch(data) ==
  IF StartsWith(data, P_add_to_series) THEN "add_to_series_"
  ELSE IF data = P_create_new_series THEN "create_new_series"
  ELSE IF StartsWith(data, P_delete_movie) THEN "delete_movie_"
  ELSE IF StartsWith(data, P_delete_series) THEN "delete_series_"
  ELSE IF StartsWith(data, P_edit_movie) THEN "edit_movie_"
  ELSE IF StartsWith(data, P_edit_series) THEN "edit_series_"
  ELSE IF StartsWith(data, P_edit_field_movie) THEN "edit_field_movie_"
  ELSE IF StartsWith(data, P_edit_field_series) THEN "edit_field_series_"
  ELSE IF data = P_edit_series_episodes THEN "edit_series_episodes"
  ELSE IF data = P_add_another_episode THEN "add_another_episode"
  ELSE IF data = P_add_new_season THEN "add_new_season"
  ELSE IF data = P_finish_series THEN "finish_series"
  ELSE IF data = P_cancel THEN "cancel"
  ELSE "none"

\* the catch of bot.on('callback_query'): the press is answered with a text,
\* nothing is sent and the session stays
EmbCallbackCatch(c, u, branch, data, f) ==
  /\ UNCHANGED <<userStates, tempData, keyboard>>
  /\ StoreUnchanged
  /\ Log(c, u, branch, <<>>, data, f, <<>>, 1, "")

\* a press that changes neither session nor store and sends `sent`
EmbCallbackQuiet(c, u, branch, data, f, sent) ==
  /\ UNCHANGED <<userStates, tempData>>
  /\ StoreUnchanged
  /\ NoButtons
  /\ Log(c, u, branch, <<>>, data, f, sent, 1, "")

\* Series.findById(id) of an id that is no ObjectId rejects with a CastError
EmbCastable(id) == id \in Ids

EmbCbAddToSeries(c, u, data, f) ==
  LET seriesId == extractId(data, P_add_to_series)
  IN IF f = 1 \/ ~EmbCastable(seriesId)
     THEN EmbCallbackCatch(c, u, "add_to_series_", data, f)
     ELSE IF ~Has(series, seriesId)
     THEN EmbCallbackQuiet(c, u, "add_to_series_", data, f, <<>>)
     ELSE /\ userStates' = MapSet(userStates, c, "adding_season_number_existing")
          /\ tempData' = MapSet(tempData, c,
               [type |-> "series", seriesId |-> seriesId, name |-> series[seriesId].name,
                thumbnail |-> series[seriesId].thumbnail, seasons |-> series[seriesId].seasons])
          /\ StoreUnchanged
          /\ NoButtons
          /\ Log(c, u, "add_to_series_", <<>>, data, f, <<"adding_to_series">>, 1, "")

EmbCbCreateNewSeries(c, u, data) ==
  /\ userStates' = MapSet(userStates, c, "adding_series_name")
  /\ tempData' = MapSet(tempData, c, [type |-> "series"])
  /\ StoreUnchanged
  /\ NoButtons
  /\ Log(c, u, "create_new_series", <<>>, data, 0, <<"enter_series_name">>, 1, "")

\* data.startsWith('edit_series_'): { type: 'series', seriesId, ...series._doc }
EmbCbEditSeries(c, u, data, f) ==
  LET seriesId == extractId(data, P_edit_series)
  IN IF f = 1 \/ ~EmbCastable(seriesId)
     THEN EmbCallbackCatch(c, u, "edit_series_", data, f)
     ELSE IF ~Has(series, seriesId)
     THEN EmbCallbackQuiet(c, u, "edit_series_", data, f, <<"series_not_found">>)
     ELSE /\ userStates' = MapSet(userStates, c, "editing_series")
          /\ tempData' = MapSet(tempData, c,
               MapSet(MapSet(MapSet(series[seriesId], "_id", seriesId),
                             "seriesId", seriesId), "type", "series"))
          /\ StoreUnchanged
          /\ SendButtons(c, {P_edit_field_series \o <<"name">>,
                             P_edit_field_series \o <<"thumbnail">>,
                             P_edit_series_episodes, P_cancel})
          /\ Log(c, u, "edit_series_", <<>>, data, f, <<"editing_series">>, 1, "")

\* data === 'edit_series_episodes': the seasons of the series being edited
EmbCbEditSeriesEpisodes(c, u, data, f) ==
  LET userData == Data(c)
  IN IF ~Has(tempData, c) \/ ~Has(userData, "type") \/ userData.type # "series"
        \/ ~Has(userData, "seriesId")
     THEN /\ UNCHANGED <<userStates, tempData>>
          /\ StoreUnchanged
          /\ NoButtons
          /\ Log(c, u, "edit_series_episodes", <<>>, data, f, <<"no_series_selected">>, 0, "")
     ELSE IF f = 1
     THEN EmbCallbackCatch(c, u, "edit_series_episodes", data, f)
     ELSE IF ~Has(series, userData.seriesId) \/ series[userData.seriesId].seasons = <<>>
     THEN /\ UNCHANGED <<userStates, tempData>>
          /\ StoreUnchanged
          /\ NoButtons
          /\ Log(c, u, "edit_series_episodes", <<>>, data, f, <<"no_seasons_found">>, 0, "")
     ELSE /\ UNCHANGED <<userStates, tempData>>
          /\ StoreUnchanged
          /\ SendButtons(c, {P_add_to_series \o <<userData.seriesId>>})
          /\ Log(c, u, "edit_series_episodes", <<>>, data, f, <<"select_season">>, 1, "")

EmbCbAddAnotherEpisode(c, u, data) ==
  IF Has(tempData, c) /\ Has(Data(c), "currentSeason")
  THEN /\ userStates' = MapSet(userStates, c, "adding_episode_number")
       /\ UNCHANGED tempData
       /\ StoreUnchanged
       /\ NoButtons
       /\ Log(c, u, "add_another_episode", <<>>, data, 0, <<"enter_next_episode_number">>, 1, "")
  ELSE EmbCallbackQuiet(c, u, "add_another_episode", data, 0, <<>>)

EmbCbAddNewSeason(c, u, data) ==
  /\ userStates' = MapSet(userStates, c, "adding_season_number")
  /\ UNCHANGED tempData
  /\ StoreUnchanged
  /\ NoButtons
  /\ Log(c, u, "add_new_season", <<>>, data, 0, <<"enter_new_season_number">>, 1, "")

\* data === 'finish_series': the seasons of the draft are written to the
\* series the draft names (no validator runs), or a new Series is saved
EmbCbFinishSeries(c, u, data, f) ==
  LET userData == Data(c)
      \* seasons left out of new Series(...) default to the empty array; the
      \* success message then fails on userData.seasons.length, after the save
      doc == IF Has(userData, "seasons") THEN EmbSeriesDoc(userData, u)
             ELSE MapSet(EmbSeriesDoc(userData, u), "seasons", <<>>)
      valid == SeriesValid(doc)
  IN
  /\ ClearSession(c)
  /\ NoButtons
  /\ IF Has(tempData, c) /\ Has(userData, "seriesId")
     THEN IF f = 1 \/ ~EmbCastable(userData.seriesId) \/ ~Has(userData, "seasons")
          THEN /\ StoreUnchanged
               /\ Log(c, u, "finish_series", <<>>, data, f, <<"error_saving_series">>, 1, "")
          ELSE /\ series' = UpdateById(series, userData.seriesId, "seasons",
                                       CastSeasons(userData.seasons))
               /\ UNCHANGED <<movies, episodes, nextId>>
               /\ Log(c, u, "finish_series", <<>>, data, f, <<"episodes_added">>, 1, "")
     ELSE IF Has(tempData, c)
     THEN IF f = 1 \/ ~valid
          THEN /\ StoreUnchanged
               /\ Log(c, u, "finish_series", <<>>, data, f, <<"error_saving_series">>, 1, "")
          ELSE /\ nextId <= MaxIds
               /\ series' = MapSet(series, NewId, doc)
               /\ nextId' = nextId + 1
               /\ UNCHANGED <<movies, episodes>>
               /\ Log(c, u, "finish_series", <<>>, data, f,
                      IF Has(userData, "seasons") THEN <<"series_created">>
                      ELSE <<"error_saving_series">>,
                      1, NewId)
     ELSE /\ StoreUnchanged
          /\ Log(c, u, "finish_series", <<>>, data, f, <<>>, 1, "")

EmbCbCancel(c, u, data) ==
  /\ ClearSession(c)
  /\ StoreUnchanged
  /\ NoButtons
  /\ Log(c, u, "cancel", <<>>, data, 0, <<"operation_canceled">>, 1, "")

\* bot.on('callback_query'): the branch of the first test that holds
EmbCallbackQuery(c, u, data, f) ==
  IF StartsWith(data, P_add_to_series) THEN EmbCbAddToSeries(c, u, data, f)
  ELSE IF data = P_create_new_series THEN EmbCbCreateNewSeries(c, u, data)
  ELSE IF StartsWith(data, P_edit_series) THEN EmbCbEditSeries(c, u, data, f)
  ELSE IF data = P_edit_series_episodes THEN EmbCbEditSeriesEpisodes(c, u, data, f)
  ELSE IF data = P_add_another_episode THEN EmbCbAddAnotherEpisode(c, u, data)
  ELSE IF data = P_add_new_season THEN EmbCbAddNewSeason(c, u, data)
  ELSE IF data = P_finish_series THEN EmbCbFinishSeries(c, u, data, f)
  ELSE IF data = P_cancel THEN EmbCbCancel(c, u, data)
  ELSE EmbCallbackQuiet(c, u, "none", data, f, <<>>)

EmbSeedSeries ==
  "s0" :> [name |-> <<"s">>, thumbnail |-> <<"t">>, addedBy |-> 101,
           seasons |-> << [_id |-> "sub", seasonNumber |-> 1,
                           episodes |-> << [episodeNumber |-> 1, title |-> <<"p">>,
                                            streamingUrl |-> <<"u">>] >>] >>]

InitEmb ==
  /\ InitSessions
  /\ movies = Empty
  /\ series = EmbSeedSeries
  /\ episodes = Empty

EmbNames == {<<"b">>}
EmbNumbers == {<<"1">>, <<"b">>}
EmbUrls == {<<"b">>, <<"1">>}

EmbPayloads ==
  {P_add_to_series \o <<"s0">>, P_create_new_series, P_edit_series \o <<"s0">>,
   P_edit_series_episodes, P_add_another_episode, P_add_new_season, P_finish_series,
   P_cancel}

NextEmb ==
  \/ EmbOnAddSeries(1, 101, AddSeriesLabel)
  \/ \E text \in EmbNames :
       \/ EmbAddingSeriesName(1, 101, text)
       \/ EmbAddingSeriesThumbnail(1, 101, text)
       \/ EmbAddingEpisodeTitle(1, 101, text)
       \/ EmbFlowDefault(1, 101, text)
  \/ \E text \in EmbNumbers :
       \/ EmbAddingSeasonNumber(1, 101, text)
       \/ EmbAddingEpisodeNumber(1, 101, text)
  \/ \E text \in EmbUrls : EmbAddingEpisodeUrl(1, 101, text)
  \/ \E data \in EmbPayloads, f \in 0..1 : EmbCallbackQuery(1, 101, data, f)

SpecEmb == InitEmb /\ [][NextEmb]_vars

\* no two entries of the sequence carry the same number under key k
DistinctNumbers(items, k) ==
  \A i, j \in DOMAIN items : items[i][k] = items[j][k] => i = j

NumbersDistinct(seasons) ==
  /\ DistinctNumbers(seasons, "seasonNumber")
  /\ \A i \in DOMAIN seasons : DistinctNumbers(seasons[i].episodes, "episodeNumber")

\* C26: in the server that keeps seasons inside the Series record, the season
\* numbers of every session draft and of every Series record are pairwise
\* distinct, and so are the episode numbers within each of their seasons.
C26_NumbersPairwiseDistinct ==
  /\ \A c \in Chats :
       (Has(tempData, c) /\ Has(tempData[c], "seasons")) => NumbersDistinct(tempData[c].seasons)
  /\ \A id \in DOMAIN series :
       Has(series[id], "seasons") => NumbersDistinct(series[id].seasons)

\* a series with at least one season is being edited in chat c
EditingSeriesWithSeasons(c) ==
  /\ UserState(c) = "editing_series"
  /\ Has(Data(c), "seriesId")
  /\ Has(series, Data(c).seriesId)
  /\ series[Data(c).seriesId].seasons # <<>>

\* C29: in the server that keeps seasons inside the Series record, once a
\* series with at least one season has been selected with edit_series_<id>, a
\* press of the button edit_series_episodes (the store answering) is handled
\* by the edit_series_episodes branch and answered with the list of seasons.
C29_EditEpisodesButtonReachesHandler ==
  [][\A c \in Chats :
       (/\ EditingSeriesWithSeasons(c)
        /\ last'.chat = c
        /\ last'.data = P_edit_series_episodes
        /\ last'.f = 0)
       => /\ last'.branch = "edit_series_episodes"
          /\ last'.sent = <<"select_season">>]_vars

-----------------------------------------------------------------------------
(* The series flow of src/index.js: seasons and episodes are collected in the
   draft and saved with the Series record on 'done' *)

MaxSeasons == 2

DoneText == <<"d", "o", "n", "e">>
NextText == <<"n", "e", "x", "t">>

\* text.toLowerCase(), over the letters of the two commands
LowerChar(ch) ==
  IF ch = "D" THEN "d" ELSE IF ch = "O" THEN "o" ELSE IF ch = "N" THEN "n"
  ELSE IF ch = "E" THEN "e" ELSE IF ch = "X" THEN "x" ELSE IF ch = "T" THEN "t"
  ELSE ch

ToLowerCase(text) == [i \in DOMAIN text |-> LowerChar(text[i])]

\* data.seasons.push(data.currentSeason) stores the object itself: the entry
\* [ref |-> "currentSeason"] stands for it until data.currentSeason is
\* assigned another object
CurrentSeasonRef == [ref |-> "currentSeason"]

IndexSeasons(data) ==
  [i \in DOMAIN data.seasons |->
     IF data.seasons[i] = CurrentSeasonRef THEN data.currentSeason ELSE data.seasons[i]]

\* new Series({ ...data, addedBy: userId }): the schema keeps name, thumbnail
\* and seasons, and name and thumbnail are required
IndexSeriesDoc(data, userId) ==
  [k \in ((DOMAIN data) \cap {"name", "thumbnail", "seasons"}) \cup {"addedBy"} |->
     IF k = "addedBy" THEN userId
     ELSE IF k = "seasons" THEN CastSeasons(IndexSeasons(data))
     ELSE data[k]]

\* the draft object outlives a case that returns before tempData.set only
\* when it is the object the map holds
IndexKeep(c, data) == IF Has(tempData, c) THEN MapSet(tempData, c, data) ELSE tempData

\* the catch of its handleConversationFlow: the session is left as it is
IndexFlowCatch(c, u, branch, text, data) ==
  /\ UNCHANGED userStates
  /\ tempData' = IndexKeep(c, data)
  /\ StoreUnchanged
  /\ NoButtons
  /\ Log(c, u, branch, text, <<>>, 0, <<"error_occurred">>, 0, "")

\* A warning that also abandons the session.
IndexWarn_ClearsSession(c, u, branch, text, warning) ==
  /\ ClearSession(c)
  /\ StoreUnchanged
  /\ NoButtons
  /\ Log(c, u, branch, text, <<>>, 0, <<warning>>, 0, "")

\* a case that warns and returns
IndexWarn(c, u, branch, text, warning) ==
  /\ UNCHANGED <<userStates, tempData>>
  /\ StoreUnchanged
  /\ NoButtons
  /\ Log(c, u, branch, text, <<>>, 0, <<warning>>, 0, "")

IndexOnAddSeries(c, u, text) ==
  /\ text = AddSeriesLabel
  /\ StoreUnchanged
  /\ IF DOMAIN series # {}
     THEN /\ userStates' = MapSet(userStates, c, "choosing_series_for_add")
          /\ UNCHANGED tempData
          /\ SendButtons(c, {P_add_to_series \o <<x>> : x \in DOMAIN series}
                            \cup {P_create_new_series})
          /\ Log(c, u, "Add Series", text, <<>>, 0, <<"choose_series">>, 0, "")
     ELSE /\ userStates' = MapSet(userStates, c, "adding_series_name")
          /\ tempData' = MapSet(tempData, c, [type |-> "series"])
          /\ NoButtons
          /\ Log(c, u, "Add Series", text, <<>>, 0, <<"enter_series_name">>, 0, "")

\* data.startsWith('add_to_series_'): the draft is built from the payload alone
IndexCbAddToSeries(c, u, data) ==
  /\ StartsWith(data, P_add_to_series)
  /\ userStates' = MapSet(userStates, c, "adding_season_number_existing")
  /\ tempData' = MapSet(tempData, c,
       [type |-> "series", seriesId |-> extractId(data, P_add_to_series), seasons |-> <<>>])
  /\ StoreUnchanged
  /\ NoButtons
  /\ Log(c, u, "add_to_series_", <<>>, data, 0, <<"enter_new_season_number">>, 1, "")

IndexCbCreateNewSeries(c, u, data) ==
  /\ data = P_create_new_series
  /\ userStates' = MapSet(userStates, c, "adding_series_name")
  /\ tempData' = MapSet(tempData, c, [type |-> "series"])
  /\ StoreUnchanged
  /\ NoButtons
  /\ Log(c, u, "create_new_series", <<>>, data, 0, <<"enter_series_name">>, 1, "")

IndexAddingSeriesName(c, u, text) ==
  IndexCollectField(c, u, text, "adding_series_name", "name",
                    "adding_series_thumbnail", "enter_series_thumbnail")

IndexAddingSeriesThumbnail(c, u, text) ==
  /\ IndexInFlow(c, text, "adding_series_thumbnail")
  /\ userStates' = MapSet(userStates, c, "adding_season_number")
  /\ tempData' = MapSet(tempData, c,
                        MapSet(IndexAssign(Data(c), "thumbnail", text), "seasons", <<>>))
  /\ StoreUnchanged
  /\ NoButtons
  /\ Log(c, u, "adding_series_thumbnail", text, <<>>, 0, <<"enter_season_number">>, 0, "")

\* the Series is saved: a rejected save is thrown to `thrown`
IndexSaveSeries(c, u, branch, text, data, f, thrown) ==
  LET doc == IndexSeriesDoc(data, u)
      saved == f = 0 /\ SeriesValid(doc)
  IN /\ saved => nextId <= MaxIds
     /\ series' = IF saved THEN MapSet(series, NewId, doc) ELSE series
     /\ nextId' = IF saved THEN nextId + 1 ELSE nextId
     /\ UNCHANGED <<movies, episodes>>
     /\ NoButtons
     /\ userStates' = IF saved THEN MapDelete(userStates, c) ELSE userStates
     /\ tempData' = IF saved THEN MapDelete(tempData, c) ELSE IndexKeep(c, data)
     /\ Log(c, u, branch, text, <<>>, f, IF saved THEN <<"series_added">> ELSE <<thrown>>,
            0, IF saved THEN NewId ELSE "")

\* case 'adding_season_number_existing': case 'adding_season_number':
IndexAddingSeasonNumber(c, u, text, f) ==
  LET data == Data(c)
      state == UserState(c)
      seasonNumber == ParseInt(text)
  IN
  /\ text \notin IndexMenuTexts
  /\ state \in {"adding_season_number_existing", "adding_season_number"}
  /\ IF text = Undefined THEN f = 0 /\ IndexFlowCatch(c, u, state, text, data)
     ELSE IF ToLowerCase(text) = DoneText
     THEN IF ~Has(data, "seasons") THEN f = 0 /\ IndexFlowCatch(c, u, state, text, data)
          ELSE IF data.seasons = <<>> THEN f = 0 /\ IndexWarn(c, u, state, text, "add_a_season")
          ELSE IndexSaveSeries(c, u, state, text, data, f, "error_occurred")
     ELSE IF IsNaN(seasonNumber) \/ seasonNumber <= 0
     THEN f = 0 /\ IndexWarn(c, u, state, text, "valid_season_number")
     ELSE /\ f = 0
          /\ userStates' = MapSet(userStates, c, "adding_episode_number")
          /\ tempData' = MapSet(tempData, c,
               MapSet(IF Has(data, "seasons") THEN MapSet(data, "seasons", IndexSeasons(data))
                      ELSE data,
                      "currentSeason", [seasonNumber |-> seasonNumber, episodes |-> <<>>]))
          /\ StoreUnchanged
          /\ NoButtons
          /\ Log(c, u, state, text, <<>>, 0, <<"enter_episode_number">>, 0, "")

\* case 'adding_episode_number': 'next', 'done' or a number
IndexAddingEpisodeNumber(c, u, text, f) ==
  LET data == Data(c)
      episodeNumber == ParseInt(text)
      hasSeason == Has(data, "currentSeason")
      pushed == MapSet(data, "seasons", Append(data.seasons, CurrentSeasonRef))
  IN
  /\ IndexInFlow(c, text, "adding_episode_number")
  /\ IF text = Undefined
     THEN f = 0 /\ IndexFlowCatch(c, u, "adding_episode_number", text, data)
     ELSE IF ToLowerCase(text) = NextText
     THEN /\ f = 0
          /\ IF ~hasSeason THEN IndexFlowCatch(c, u, "adding_episode_number", text, data)
             ELSE IF data.currentSeason.episodes = <<>>
             THEN IndexWarn(c, u, "adding_episode_number", text, "add_an_episode")
             ELSE IF ~Has(data, "seasons")
             THEN IndexFlowCatch(c, u, "adding_episode_number", text, data)
             ELSE /\ Len(data.seasons) < MaxSeasons
                  /\ userStates' = MapSet(userStates, c, "adding_season_number")
                  /\ tempData' = IndexKeep(c, pushed)
                  /\ StoreUnchanged
                  /\ NoButtons
                  /\ Log(c, u, "adding_episode_number", text, <<>>, 0,
                         <<"enter_next_season_number">>, 0, "")
     ELSE IF ToLowerCase(text) = DoneText
     THEN IF ~Has(data, "seasons")
          THEN f = 0 /\ IndexFlowCatch(c, u, "adding_episode_number", text, data)
          ELSE IF hasSeason /\ data.currentSeason.episodes # <<>>
          THEN /\ Len(data.seasons) < MaxSeasons
               /\ IndexSaveSeries(c, u, "adding_episode_number", text, pushed, f,
                                  "error_adding_series")
          ELSE IF data.seasons = <<>>
          THEN f = 0 /\ IndexWarn(c, u, "adding_episode_number", text, "add_a_season")
          ELSE IndexSaveSeries(c, u, "adding_episode_number", text, data, f,
                               "error_adding_series")
     ELSE IF IsNaN(episodeNumber) \/ episodeNumber <= 0
     THEN f = 0 /\ IndexWarn(c, u, "adding_episode_number", text, "valid_episode_number")
     ELSE /\ f = 0
          /\ IF ~hasSeason
             THEN IndexFlowCatch(c, u, "adding_episode_number", text,
                                 MapSet(data, "currentEpisode", [episodeNumber |-> episodeNumber]))
             ELSE /\ userStates' = MapSet(userStates, c, "adding_episode_title")
                  /\ tempData' = MapSet(tempData, c,
                       MapSet(data, "currentEpisode", [episodeNumber |-> episodeNumber]))
                  /\ StoreUnchanged
                  /\ NoButtons
                  /\ Log(c, u, "adding_episode_number", text, <<>>, 0,
                         <<"enter_episode_title">>, 0, "")

IndexAddingEpisodeTitle(c, u, text) ==
  LET data == Data(c)
  IN
  /\ IndexInFlow(c, text, "adding_episode_title")
  /\ IF ~Has(data, "currentEpisode")
     THEN IndexFlowCatch(c, u, "adding_episode_title", text, data)
     ELSE /\ userStates' = MapSet(userStates, c, "adding_episode_url")
          /\ tempData' = MapSet(tempData, c,
               MapSet(data, "currentEpisode", IndexAssign(data.currentEpisode, "title", text)))
          /\ StoreUnchanged
          /\ NoButtons
          /\ Log(c, u, "adding_episode_title", text, <<>>, 0, <<"enter_episode_url">>, 0, "")

IndexAddingEpisodeUrl(c, u, text) ==
  LET data == Data(c)
      currentEpisode == IndexAssign(data.currentEpisode, "streamingUrl", text)
      withEpisode == MapSet(data, "currentEpisode", currentEpisode)
  IN
  /\ IndexInFlow(c, text, "adding_episode_url")
  /\ IF ~Has(data, "currentEpisode")
     THEN IndexFlowCatch(c, u, "adding_episode_url", text, data)
     ELSE IF ~Has(data, "currentSeason")
     THEN IndexFlowCatch(c, u, "adding_episode_url", text, withEpisode)
     ELSE /\ Len(data.currentSeason.episodes) < MaxEpisodes
          /\ userStates' = MapSet(userStates, c, "adding_episode_number")
          /\ tempData' = MapSet(tempData, c,
               MapSet(withEpisode, "currentSeason",
                      MapSet(data.currentSeason, "episodes",
                             Append(data.currentSeason.episodes, currentEpisode))))
          /\ StoreUnchanged
          /\ NoButtons
          /\ Log(c, u, "adding_episode_url", text, <<>>, 0, <<"episode_added">>, 0, "")

IndexSeriesCommands == {<<"1">>, DoneText, NextText}

NextIndexSeries ==
  \/ IndexOnAddSeries(1, 101, AddSeriesLabel)
  \/ IndexCbAddToSeries(1, 101, P_add_to_series \o <<"s0">>)
  \/ IndexCbCreateNewSeries(1, 101, P_create_new_series)
  \/ \E text \in EmbNames :
       \/ IndexAddingSeriesName(1, 101, text)
       \/ IndexAddingSeriesThumbnail(1, 101, text)
       \/ IndexAddingEpisodeTitle(1, 101, text)
       \/ IndexAddingEpisodeUrl(1, 101, text)
       \/ IndexFlowDefault(1, 101, text)
  \/ \E text \in IndexSeriesCommands, f \in 0..1 :
       \/ IndexAddingSeasonNumber(1, 101, text, f)
       \/ IndexAddingEpisodeNumber(1, 101, text, f)

SpecIndexSeries == InitEmb /\ [][NextIndexSeries]_vars

\* the draft of chat c names a series of the store and holds a new episode
AddingToExistingSeries(c) ==
  /\ Has(Data(c), "seriesId")
  /\ Has(series, Data(c).seriesId)
  /\ \/ Has(Data(c), "currentSeason") /\ Data(c).currentSeason.episodes # <<>>
     \/ Has(Data(c), "seasons") /\ Data(c).seasons # <<>>

\* C27: in src/index.js a press of add_to_series_<id> for a series of the
\* store enters the season-number state with the draft holding that series'
\* name, thumbnail and seasons; and 'done' after at least one new episode
\* (the store answering) adds a season to that Series record and creates no
\* other Series record.
C27_AddToSeriesExtendsExistingRecord ==
  [][\A c \in Chats :
       /\ (/\ last'.chat = c
           /\ last'.branch = "add_to_series_"
           /\ Has(series, extractId(last'.data, P_add_to_series)))
          => LET id == extractId(last'.data, P_add_to_series)
             IN /\ UserState(c)' = "adding_season_number_existing"
                /\ Has(tempData', c)
                /\ {"name", "thumbnail", "seasons"} \subseteq DOMAIN tempData'[c]
                /\ tempData'[c].name = series[id].name
                /\ tempData'[c].thumbnail = series[id].thumbnail
                /\ tempData'[c].seasons = series[id].seasons
       /\ (/\ AddingToExistingSeries(c)
           /\ last'.chat = c
           /\ last'.data = <<>>
           /\ last'.branch \in {"adding_season_number_existing", "adding_season_number",
                                "adding_episode_number"}
           /\ last'.text # Undefined
           /\ ToLowerCase(last'.text) = DoneText
           /\ last'.f = 0)
          => LET id == Data(c).seriesId
             IN /\ DOMAIN series' = DOMAIN series
                /\ Len(series'[id].seasons) > Len(series[id].seasons)]_vars

-----------------------------------------------------------------------------
(* The dispatch of the payloads the normalized server builds *)

\* the prefixes an identifier is appended to, with the name of their branch
\* and the identifiers of the records their buttons are built for
IdPrefixes ==
  {<<P_edit_movie, "edit_movie_", {"m0"}>>, <<P_delete_movie, "delete_movie_", {"m0"}>>,
   <<P_edit_series, "edit_series_", {"s0", SeparatorId}>>,
   <<P_delete_series, "delete_series_", {"s0", SeparatorId}>>,
   <<P_edit_series_episodes, "edit_series_episodes_", {"s0", SeparatorId}>>,
   <<P_add_new_season_to_series, "add_new_season_to_series_", {"s0", SeparatorId}>>,
   <<P_edit_episode_field, "edit_episode_field_", {"e0"}>>}

\* the prefixes a field name is appended to, with the name of their branch,
\* the state prefix they lead to and the field names of their buttons
FieldPrefixes ==
  {<<P_edit_field_movie, "edit_field_movie_", "editing_movie_",
     {<<"name">>, <<"streaming", "url">>}>>,
   <<P_edit_field_series, "edit_field_series_", "editing_series_", {<<"thumbnail">>}>>,
   <<P_edit_field_episode, "edit_field_episode_", "editing_episode_",
     {<<"title">>, <<"streaming", "url">>}>>}

DispatchPayloads ==
  UNION {{k[1] \o split(id) : id \in k[3]} : k \in IdPrefixes}
  \cup UNION {{k[1] \o fld : fld \in k[4]} : k \in FieldPrefixes}

NextDispatch ==
  \E data \in DispatchPayloads :
    \/ \E f \in 0..1 : CbEditMovie(1, 101, data, f)
    \/ \E f \in 0..1 : CbDeleteMovie(1, 101, data, f)
    \/ \E f \in 0..1 : CbEditSeries(1, 101, data, f)
    \/ \E f \in 0..2 : CbDeleteSeries(1, 101, data, f)
    \/ \E f \in 0..2 : CbEditSeriesEpisodes(1, 101, data, f)
    \/ CbAddNewSeasonToSeries(1, 101, data)
    \/ \E f \in 0..1 : CbEditEpisodeField(1, 101, data, f)
    \/ CbEditFieldMovie(1, 101, data)
    \/ CbEditFieldSeries(1, 101, data)
    \/ CbEditFieldEpisode(1, 101, data)

SpecDispatch == InitSeason /\ [][NextDispatch]_vars

\* what shows, in the step of a press answered by the store, that the handler
\* of `branch` worked on the identifier id
Received(c, branch, id) ==
  IF branch = "edit_movie_"
  THEN Has(movies, id) => (Has(tempData', c) /\ tempData'[c].movieId = id)
  ELSE IF branch = "delete_movie_"
  THEN DOMAIN movies' = (DOMAIN movies) \ {id}
  ELSE IF branch = "edit_series_"
  THEN Has(series, id) => (Has(tempData', c) /\ tempData'[c].seriesId = id)
  ELSE IF branch = "delete_series_"
  THEN DOMAIN series' = (DOMAIN series) \ {id}
  ELSE IF branch = "edit_series_episodes_"
  THEN Has(series, id) => (Has(tempData', c) /\ tempData'[c].seriesId = id)
  ELSE IF branch = "add_new_season_to_series_"
  THEN Has(tempData', c) /\ tempData'[c].seriesId = id
  ELSE Has(episodes, id) => (Has(tempData', c) /\ tempData'[c].episodeId = id)

\* C28: in the normalized server a payload built from one of the prefixes
\* the bot attaches to its buttons and an identifier (or a field name) is
\* handled by the branch of that prefix, and the branch works on exactly the
\* identifier (the field name) the payload was built from.
C28_BuiltPayloadsReachOwnHandler ==
  [][\A c \in Chats :
       /\ \A k \in IdPrefixes : \A id \in k[3] :
            (last'.chat = c /\ last'.data = k[1] \o split(id) /\ last'.f = 0)
            => /\ last'.branch = k[2]
               /\ Received(c, k[2], id)
       /\ \A k \in FieldPrefixes : \A fld \in k[4] :
            (last'.chat = c /\ last'.data = k[1] \o fld)
            => /\ last'.branch = k[2]
               /\ last'.answered = 1 => UserState(c)' = k[3] \o Join(fld)]_vars

\* the list of seasons of series s0 was sent for a press of edit_series_episodes_s0
C28_Witness ==
  /\ last.data = P_edit_series_episodes \o <<"s0">>
  /\ last.branch = "edit_series_episodes_"
  /\ last.sent = <<"select_season">>
  /\ Has(tempData, 1) /\ tempData[1].seriesId = "s0"

-----------------------------------------------------------------------------
(* bot.on('polling_error') of the servers that poll (src/unnamed/part_000 and
   the first server of src/unnamed/part_001), with the timers of the process *)

MaxPollErrors == 4

\* setTimeout(..., 5000)
RestartDelay == 5000

\* the step of the clock
TickMs == 2500

ErrorCodes == {"EFATAL", "ETELEGRAM", "EPARSE"}

PollFrame ==
  UNCHANGED <<userStates, tempData, movies, series, episodes, nextId, keyboard, transcript,
              last, pending, response, boot>>

\* the handler schedules bot.startPolling({ restart: true }) for every code
PollingError_AnyCode(code) ==
  /\ poll.efatal + poll.other < MaxPollErrors
  /\ poll' = [poll EXCEPT !.timers = Append(@, RestartDelay),
                          !.efatal = IF code = "EFATAL" THEN @ + 1 ELSE @,
                          !.other = IF code = "EFATAL" THEN @ ELSE @ + 1]
  /\ PollFrame

\* bot.on('polling_error'): the error is logged; for 'EFATAL' a timer of
\* RestartDelay ms is set
PollingError(code) ==
  /\ poll.efatal + poll.other < MaxPollErrors
  /\ poll' = IF code = "EFATAL"
             THEN [poll EXCEPT !.timers = Append(@, RestartDelay), !.efatal = @ + 1]
             ELSE [poll EXCEPT !.other = @ + 1]
  /\ PollFrame

\* time passes, up to the moment the oldest timer is due: a timer that is due
\* runs before the clock moves on
Tick ==
  LET step == IF Head(poll.timers) < TickMs THEN Head(poll.timers) ELSE TickMs
  IN /\ poll.timers # <<>>
     /\ \A i \in DOMAIN poll.timers : poll.timers[i] > 0
     /\ poll' = [poll EXCEPT !.timers = [i \in DOMAIN @ |-> @[i] - step]]
     /\ PollFrame

\* the callback of the timer: bot.startPolling({ restart: true })
TimerFires ==
  /\ poll.timers # <<>>
  /\ Head(poll.timers) = 0
  /\ poll' = [poll EXCEPT !.timers = Tail(@), !.restarts = @ + 1]
  /\ PollFrame

InitPoll ==
  /\ InitMaps
  /\ movies = Empty /\ series = Empty /\ episodes = Empty
  /\ boot = Booted
  /\ \E server \in {"part_000", "part_001"} : poll = [PollQuiet EXCEPT !.server = server]

NextPoll ==
  \/ \E code \in ErrorCodes : PollingError(code)
  \/ Tick
  \/ TimerFires

SpecPoll == InitPoll /\ [][NextPoll]_vars

\* the event loop runs a timer that is due, and time passes
SpecPollFair == SpecPoll /\ WF_vars(Tick) /\ WF_vars(TimerFires)

\* C30: in the servers that poll, an 'EFATAL' polling error sets one timer
\* of the fixed delay and restarts nothing by itself, an error with another
\* code changes neither timers nor restarts, polling is restarted only by a
\* timer whose delay has passed, once per timer, and every 'EFATAL' error
\* is in the end followed by its restart.
C30_EfatalRestartsOnceAfterDelay ==
  /\ [][/\ poll'.efatal # poll.efatal
           => /\ poll'.timers = Append(poll.timers, RestartDelay)
              /\ poll'.restarts = poll.restarts
        /\ poll'.other # poll.other
           => /\ poll'.timers = poll.timers
              /\ poll'.restarts = poll.restarts
        /\ poll'.restarts # poll.restarts
           => /\ poll'.restarts = poll.restarts + 1
              /\ poll.timers # <<>> /\ Head(poll.timers) = 0
              /\ poll'.timers = Tail(poll.timers)
        /\ poll'.restarts + Len(poll'.timers) = poll'.efatal]_vars
  /\ \A n \in 1..MaxPollErrors : (poll.efatal >= n) ~> (poll.restarts >= n)

\* polling was restarted after an 'EFATAL' error and an error with another
\* code was logged
C30_Witness ==
  /\ poll.restarts >= 1
  /\ poll.other >= 1
  /\ poll.restarts = poll.efatal

\* the editing_* states of each kind of record, with the key of its
\* identifier in the draft and the type the draft carries
EditingKinds ==
  {<<{"editing_movie_name", "editing_movie_thumbnail", "editing_movie_streaming_url"},
     "movieId", "movie">>,
   <<{"editing_series_name", "editing_series_thumbnail"}, "seriesId", "series">>,
   <<{"editing_episode_title", "editing_episode_streaming_url"}, "episodeId", "episode_edit">>}

\* C31: in the normalized server, a chat whose state is editing_movie_*,
\* editing_series_* or editing_episode_* has a draft of that kind holding
\* the identifier (movieId, seriesId, episodeId) of the record to edit.
C31_EditingStateHasIdentifier ==
  \A c \in Chats : \A k \in EditingKinds :
    UserState(c) \in k[1]
    => /\ Has(tempData, c)
       /\ Has(tempData[c], k[2])
       /\ Has(tempData[c], "type") /\ tempData[c].type = k[3]

-----------------------------------------------------------------------------
(* A series deleted by one chat while another chat adds an episode to it *)

NextOrphan ==
  \/ CbAddNewSeasonToSeries(1, 101, P_add_new_season_to_series \o <<"s0">>)
  \/ \E text \in RaceNumbers, f \in StoreFailures, undef \in UndefinedFilter :
       \/ AddingSeasonNumber(1, 101, text, f, undef)
       \/ AddingEpisodeNumber(1, 101, text, f, undef)
  \/ \E text \in EpisodeTexts :
       \/ AddingEpisodeTitle(1, 101, text)
       \/ \E f \in StoreFailures : AddingEpisodeUrl(1, 101, text, f)
  \/ \E f \in 0..1 : CbDeleteSeries(2, 102, P_delete_series \o <<"s0">>, f)

SpecOrphan == InitSeeded /\ [][NextOrphan]_vars

\* C32: in the normalized server, the seriesId of every Episode record is
\* the id of a Series record of the store.
C32_EpisodesBelongToStoredSeries ==
  \A e \in DOMAIN episodes :
    Has(episodes[e], "seriesId") /\ Has(series, episodes[e].seriesId)

\* C33: in the normalized server, every callback query handled, whatever
\* its branch, is answered with answerCallbackQuery exactly once.
C33_EveryCallbackAnsweredOnce ==
  [][(last' # last /\ last'.data # <<>>) => last'.answered = 1]_vars

-----------------------------------------------------------------------------
(* A record deleted by one chat after another chat selected it for editing *)

NextGone ==
  \/ \E f \in 0..1 : CbEditMovie(1, 101, P_edit_movie \o <<"m0">>, f)
  \/ CbEditFieldMovie(1, 101, P_edit_field_movie \o <<"name">>)
  \/ \E f \in 0..1 : CbEditSeries(1, 101, P_edit_series \o <<"s0">>, f)
  \/ CbEditFieldSeries(1, 101, P_edit_field_series \o <<"name">>)
  \/ \E text \in {<<"b">>, Undefined}, f \in 0..1, undef \in UndefinedFilter :
       \/ EditingMovieName(1, 101, text, f, undef)
       \/ EditingSeriesName(1, 101, text, f, undef)
  \/ \E f \in 0..1 : CbDeleteMovie(2, 102, P_delete_movie \o <<"m0">>, f)
  \/ \E f \in 0..2 : CbDeleteSeries(2, 102, P_delete_series \o <<"s0">>, f)

SpecGone == InitSeeded /\ [][NextGone]_vars

\* the collection of the records whose drafts carry type `type`
CollectionOf(type) ==
  IF type = "movie" THEN movies ELSE IF type = "series" THEN series ELSE episodes

\* C34: in the normalized server, when a new value arrives in an editing_*
\* state whose draft names a record that is no longer in the store, the
\* store is left unchanged and the success confirmation is not sent.
C34_NoSuccessWithoutUpdatedRecord ==
  [][\A c \in Chats : \A k \in EditingKinds :
       (/\ last' # last
        /\ last'.chat = c
        /\ last'.data = <<>>
        /\ last'.branch \in k[1]
        /\ UserState(c) \in k[1]
        /\ Has(Data(c), k[2])
        /\ ~Has(CollectionOf(k[3]), Data(c)[k[2]]))
       => /\ last'.sent # <<"updated">>
          /\ UNCHANGED <<movies, series, episodes>>]_vars

-----------------------------------------------------------------------------
(* Two chats adding episodes to the same series of src/unnamed/part_000 *)

EmbTwoPayloads == {P_add_to_series \o <<"s0">>, P_finish_series}

NextEmbTwo ==
  \E c \in Chats :
    \/ \E text \in {<<"1">>, <<"2">>} :
         \/ EmbAddingSeasonNumber(c, 100 + c, text)
         \/ EmbAddingEpisodeNumber(c, 100 + c, text)
    \/ EmbAddingEpisodeTitle(c, 100 + c, <<"b">>)
    \/ EmbAddingEpisodeUrl(c, 100 + c, <<"b">>)
    \/ \E data \in EmbTwoPayloads : EmbCallbackQuery(c, 100 + c, data, 0)

SpecEmbTwo == InitEmb /\ [][NextEmbTwo]_vars

\* the (season, episode) numbers of the episodes of a list of seasons
EpisodeKeys(seasons) ==
  UNION {{<<seasons[i].seasonNumber, seasons[i].episodes[j].episodeNumber>> :
            j \in DOMAIN seasons[i].episodes} : i \in DOMAIN seasons}

\* C35: in the server that keeps seasons inside the Series record, when a
\* chat that selected a series with add_to_series_<id> and added an episode
\* to it presses finish_series, the stored series then holds the episodes of the chat's draft and every
\* episode it held before the press, those another chat has added since the
\* selection included; so after two chats have finished, both new episodes
\* are stored.
C35_FinishKeepsEpisodesOfOtherChats ==
  [][\A c \in Chats :
       (/\ last' # last
        /\ last'.chat = c
        /\ last'.data = P_finish_series
        /\ Has(Data(c), "seriesId")
        /\ Has(series, Data(c).seriesId)
        /\ EpisodeKeys(Data(c).seasons) \ EpisodeKeys(series[Data(c).seriesId].seasons) # {})
       => LET id == Data(c).seriesId
          IN /\ Has(series', id)
             /\ EpisodeKeys(Data(c).seasons) \subseteq EpisodeKeys(series'[id].seasons)
             /\ EpisodeKeys(series[id].seasons) \subseteq EpisodeKeys(series'[id].seasons)]_vars
\* ---------------------------------------------------------------------------
\* Two chats using the movie handlers of part_002 side by side (SpecIsolation).
\* ---------------------------------------------------------------------------

IsoInputs ==
  {<<t, <<>>, 0>> : t \in {StartCommand, AddMovieLabel, <<"b">>}}
  \cup {<<<<"b">>, <<>>, 1>>}
  \cup {<<<<>>, d, 0>> :
          d \in {P_edit_movie \o <<"m0">>, P_edit_field_movie \o <<"name">>, P_cancel}}

IsoUpdate(c, text, data, f) ==
  \/ /\ data = <<>> /\ f = 0
     /\ \/ OnStart(c, 100 + c, text)
        \/ OnAddMovie(c, 100 + c, text)
        \/ AddingMovieName(c, 100 + c, text)
        \/ FlowDefault(c, 100 + c, text)
  \/ /\ data = <<>>
     /\ EditingMovieName(c, 100 + c, text, f, "null")
  \/ /\ text = <<>>
     /\ \/ CbEditMovie(c, 100 + c, data, f)
        \/ CbEditFieldMovie(c, 100 + c, data)
        \/ CbCancel(c, 100 + c, data)

NextIsolation ==
  \E c \in Chats, inp \in IsoInputs : IsoUpdate(c, inp[1], inp[2], inp[3])

SpecIsolation == InitSeeded /\ [][NextIsolation]_vars

IsoStates ==
  {"undefined", "adding_movie_name", "adding_movie_thumbnail", "editing_movie",
   "editing_movie_name"}

IsoTags ==
  {"welcome", "enter_movie_name", "enter_movie_thumbnail", "did_not_understand",
   "editing_movie", "movie_not_found", "no_movie_selected", "enter_new_value", "updated",
   "error_updating", "operation_canceled", "error_occurred"}

IsoSent == {<<>>} \cup {<<tag>> : tag \in IsoTags}

\* The update inp of chat c can leave the chat in session state st.
IsoReaches(c, inp, st) ==
  IsoUpdate(c, inp[1], inp[2], inp[3]) /\ UserState(c)' = st

\* The update inp of chat c can leave the chat with a draft (or without one).
IsoKeepsDraft(c, inp, hasDraft) ==
  IsoUpdate(c, inp[1], inp[2], inp[3]) /\ Has(tempData', c) = hasDraft

\* The update inp of chat c can send the messages sent.
IsoSends(c, inp, sent) ==
  IsoUpdate(c, inp[1], inp[2], inp[3]) /\ last'.sent = sent

\* C36: handling an update of one chat leaves the session state and the draft
\* of every other chat as they were, and what an update of a chat leads to
\* (next session state, draft kept or not, messages sent) is the same before
\* and after another chat's session changed while the store stayed the same
\* (compared for chat 1 across the updates of chat 2; the two chats run the
\* same handlers).
C36_SessionsOfChatsAreIndependent ==
  [][/\ \A c \in Chats :
          (UserState(c)' # UserState(c) \/ Has(tempData', c) # Has(tempData, c)
             \/ Data(c)' # Data(c)) => last'.chat = c
     /\ \A c \in Chats : UserState(c)' \in IsoStates
     /\ last'.sent \in IsoSent
     /\ \A a \in {1} :
          (last'.chat # a /\ UNCHANGED <<movies, series, episodes, nextId>>)
            => \A inp \in IsoInputs :
                 /\ \A st \in IsoStates :
                      (ENABLED IsoReaches(a, inp, st)) <=> (ENABLED IsoReaches(a, inp, st))'
                 /\ \A hasDraft \in BOOLEAN :
                      (ENABLED IsoKeepsDraft(a, inp, hasDraft))
                        <=> (ENABLED IsoKeepsDraft(a, inp, hasDraft))'
                 /\ \A sent \in IsoSent :
                      (ENABLED IsoSends(a, inp, sent)) <=> (ENABLED IsoSends(a, inp, sent))']_vars

C36_Witness ==
  /\ last.chat = 1 /\ last.branch = "adding_movie_name"
  /\ UserState(1) = "adding_movie_thumbnail"
  /\ UserState(2) = "editing_movie_name" /\ Has(tempData, 2)
\* ---------------------------------------------------------------------------
\* One chat restarting in the middle of the add-movie and edit-movie flows of
\* part_002 (SpecRestart).
\* ---------------------------------------------------------------------------

NextRestart ==
  \/ OnStart(1, 101, StartCommand)
  \/ OnAddMovie(1, 101, AddMovieLabel)
  \/ \E text \in MovieTexts : MovieFlow(1, 101, text) \/ OtherFlow(1, 101, text)
  \/ \E f \in 0..1 : CbEditMovie(1, 101, P_edit_movie \o <<"m0">>, f)
  \/ CbEditFieldMovie(1, 101, P_edit_field_movie \o <<"name">>)
  \/ \E text \in MovieTexts, f \in 0..1 : EditingMovieName(1, 101, text, f, "null")

SpecRestart == InitSeeded /\ [][NextRestart]_vars

\* C37: '/start' in any session state removes the chat's session state and
\* draft, sends the welcome menu and changes no record; a text that is not a
\* menu choice and comes next from the same chat is answered with the help
\* message, changes no record and starts no session.
C37_StartAbandonsTheFlow ==
  [][\A c \in Chats :
       /\ (last' # last /\ last'.chat = c /\ last'.text = StartCommand)
            => /\ ~Has(userStates', c) /\ ~Has(tempData', c)
               /\ last'.sent = <<"welcome">>
               /\ UNCHANGED <<movies, series, episodes>>
       /\ (/\ last.chat = c /\ last.text = StartCommand
           /\ last' # last /\ last'.chat = c /\ last'.data = <<>>
           /\ last'.text \notin MenuTexts \cup {StartCommand})
            => /\ last'.branch = "default"
               /\ last'.sent = <<"did_not_understand">>
               /\ ~Has(userStates', c) /\ ~Has(tempData', c)
               /\ UNCHANGED <<movies, series, episodes>>]_vars

C37_Witness ==
  /\ last.chat = 1 /\ last.text = StartCommand /\ last.sent = <<"welcome">>
  /\ ~Has(userStates, 1) /\ ~Has(tempData, 1)
  /\ movies # SeedMovies

\* the Series records a step adds to the store
SavedSeries == {series'[id] : id \in DOMAIN series' \ DOMAIN series}

\* chat c sends the command word in session state(s) states
IndexCommand(c, word, states) ==
  /\ last' # last /\ last'.chat = c /\ last'.data = <<>>
  /\ last'.text # Undefined /\ ToLowerCase(last'.text) = word
  /\ UserState(c) \in states

\* the draft of chat c has no season under way that holds an episode
NoEpisodeUnderWay(c) ==
  Has(Data(c), "currentSeason") => Data(c).currentSeason.episodes = <<>>

\* C38: in src/index.js every Series record the add-series flow saves has at
\* least one season and each of its seasons has at least one episode; 'done'
\* while the draft has no season with an episode, and 'next' while the season
\* under way has no episode, are answered with a warning, write nothing and
\* leave the session state as it was.
C38_SavedSeriesHasSeasonsWithEpisodes ==
  [][/\ series' # series
          => /\ SavedSeries # {}
             /\ \A doc \in SavedSeries :
                  /\ Has(doc, "seasons") /\ Len(doc.seasons) >= 1
                  /\ \A i \in DOMAIN doc.seasons : Len(doc.seasons[i].episodes) >= 1
     /\ \A c \in Chats :
          /\ (/\ \/ IndexCommand(c, DoneText, {"adding_season_number"})
                 \/ IndexCommand(c, DoneText, {"adding_episode_number"}) /\ NoEpisodeUnderWay(c)
              /\ Has(Data(c), "seasons") /\ Data(c).seasons = <<>>)
               => /\ last'.sent = <<"add_a_season">>
                  /\ UNCHANGED <<movies, series, episodes, userStates>>
          /\ (/\ IndexCommand(c, NextText, {"adding_episode_number"})
              /\ Has(Data(c), "currentSeason") /\ Data(c).currentSeason.episodes = <<>>)
               => /\ last'.sent = <<"add_an_episode">>
                  /\ UNCHANGED <<movies, series, episodes, userStates>>]_vars

C38_Witness ==
  /\ last.sent = <<"series_added">>
  /\ Has(series, last.created)
  /\ Len(series[last.created].seasons) = 2
  /\ \A i \in 1..2 : Len(series[last.created].seasons[i].episodes) >= 1

\* the draft of chat c is a series draft with a season that holds an episode
SeriesDraftWithEpisode(c) ==
  /\ Has(tempData, c)
  /\ Has(Data(c), "type") /\ Data(c).type = "series"
  /\ Has(Data(c), "seasons")
  /\ \E i \in DOMAIN Data(c).seasons : Len(Data(c).seasons[i].episodes) >= 1

\* C39: in part_000 a press of finish_series creates or changes a Series
\* record only when the chat's draft is a series draft holding at least one
\* season with at least one episode; otherwise the store is left as it was.
C39_FinishWritesOnlyFromFilledSeriesDraft ==
  [][\A c \in Chats :
       (last'.chat = c /\ last'.data = P_finish_series /\ series' # series)
         => SeriesDraftWithEpisode(c)]_vars

\* ---------------------------------------------------------------------------
\* Pages of GET /api/media while the catalog changes (SpecMedia).
\* ---------------------------------------------------------------------------

PageTexts == {<<"1">>, <<"2">>}

NextMedia ==
  \/ \E page \in PageTexts, limit \in PageTexts, type \in {"", "movie"}, f \in 0..1 :
       GetApiMedia(page, limit, "", type, f)
  \/ OnAddMovie(1, 101, AddMovieLabel)
  \/ MovieFlow(1, 101, <<"b">>)
  \/ \E f \in 0..1 : CbDeleteMovie(1, 101, P_delete_movie \o <<"m0">>, f)
  \/ \E f \in 0..2 : CbDeleteSeries(1, 101, P_delete_series \o <<"s0">>, f)

SpecMedia == InitSeeded /\ [][NextMedia]_vars

\* C40: GET /api/media with a page >= 1, a limit L >= 1 and no type filter
\* answers with at most L items, ordered by addedAt from newest to oldest.
C40_MediaPageWithinLimitNewestFirst ==
  [][\A page \in PageTexts, limit \in PageTexts :
       GetApiMedia(page, limit, "", "", 0)
         => /\ Len(response'.list) <= ParseInt(limit)
            /\ \A i, j \in DOMAIN response'.list :
                 i < j => AddedAt(response'.list[i]) >= AddedAt(response'.list[j])]_vars
====
